---- MODULE Spec2Model ----
(***************************************************************************)
(* chrono-fns: the natural-language date resolver (src/nlp/index.ts), the  *)
(* calendar arithmetic it calls (src/utils/index.ts) and the core helpers  *)
(* (src/core/index.ts).                                                    *)
(*                                                                         *)
(* Conventions of the model                                                *)
(*  - A string is a sequence of one-character strings.                     *)
(*  - A Date is a record [tag, d, ms]: tag "date" with d the local         *)
(*    calendar day counted from 1970-01-01 and ms the millisecond of that  *)
(*    day (the host's time value is d * MsPerDay + ms, kept as a pair so   *)
(*    that it fits the checker's integers); tag "invalid" is the host's    *)
(*    Invalid Date (time value NaN); tag "null" is null and tag            *)
(*    "undefined" an option left out.                                      *)
(*  - Local time is a zone without offset or daylight-saving changes, so   *)
(*    the local fields of a Date are those of its time value.              *)
(*  - A confidence is held in hundredths: 0.95 is 95.                      *)
(***************************************************************************)
EXTENDS Integers, Sequences, FiniteSets, TLC

(***************************************************************************)
(* Bounds of the checked instance                                          *)
(***************************************************************************)
\* offset phrases are built with the amounts 0..MaxAmount (and LargeAmount)
MaxAmount == 1

\* the largest run of blanks put around and inside a built input
MaxPad == 2

(***************************************************************************)
(* Strings                                                                 *)
(***************************************************************************)
LowerAlphabet ==
  <<"a","b","c","d","e","f","g","h","i","j","k","l","m",
    "n","o","p","q","r","s","t","u","v","w","x","y","z">>

UpperAlphabet ==
  <<"A","B","C","D","E","F","G","H","I","J","K","L","M",
    "N","O","P","Q","R","S","T","U","V","W","X","Y","Z">>

DigitChars == <<"0","1","2","3","4","5","6","7","8","9">>

\* the index of c in the sequence a, or 0
IndexIn(a, c) ==
  IF \E i \in 1..Len(a) : a[i] = c
    THEN CHOOSE i \in 1..Len(a) : a[i] = c
    ELSE 0

\* the characters of the inputs
Characters ==
  {LowerAlphabet[i] : i \in 1..Len(LowerAlphabet)}
    \cup {UpperAlphabet[i] : i \in 1..Len(UpperAlphabet)}
    \cup {DigitChars[i] : i \in 1..Len(DigitChars)}
    \cup {" ", "\t", "-", ":"}

LowerOf ==
  [c \in Characters |->
     IF IndexIn(UpperAlphabet, c) > 0 THEN LowerAlphabet[IndexIn(UpperAlphabet, c)] ELSE c]

UpperOf ==
  [c \in Characters |->
     IF IndexIn(LowerAlphabet, c) > 0 THEN UpperAlphabet[IndexIn(LowerAlphabet, c)] ELSE c]

ToLowerChar(c) == LowerOf[c]

ToUpperChar(c) == UpperOf[c]

\* String.prototype.toLowerCase
ToLowerCase(s) == [i \in 1..Len(s) |-> ToLowerChar(s[i])]

ToUpperCase(s) == [i \in 1..Len(s) |-> ToUpperChar(s[i])]

\* the regular expression class \s, and the characters trim() removes
IsWhitespace(c) == c \in {" ", "\t"}

\* the regular expression class \d
DigitSet == {DigitChars[i] : i \in 1..Len(DigitChars)}

IsDigit(c) == c \in DigitSet

SetMin(S) == CHOOSE x \in S : \A y \in S : x <= y

SetMax(S) == CHOOSE x \in S : \A y \in S : x >= y

\* String.prototype.trim
Trim(s) ==
  LET keep == {i \in 1..Len(s) : ~IsWhitespace(s[i])}
  IN  IF keep = {} THEN <<>> ELSE SubSeq(s, SetMin(keep), SetMax(keep))

\* whether sub occurs in s at position i
OccursAt(s, sub, i) ==
  /\ i >= 1
  /\ i + Len(sub) - 1 <= Len(s)
  /\ \A j \in 1..Len(sub) : s[i + j - 1] = sub[j]

\* String.prototype.replace(sub, ''): the first occurrence of sub is removed
ReplaceFirst(s, sub) ==
  LET at == {i \in 1..(Len(s) + 1) : OccursAt(s, sub, i)}
  IN  IF at = {} THEN s
      ELSE SubSeq(s, 1, SetMin(at) - 1) \o SubSeq(s, SetMin(at) + Len(sub), Len(s))

\* parseInt of a run of decimal digits
RECURSIVE ParseInt(_)
ParseInt(s) ==
  IF s = <<>> THEN 0
  ELSE 10 * ParseInt(SubSeq(s, 1, Len(s) - 1)) + (IndexIn(DigitChars, s[Len(s)]) - 1)

(***************************************************************************)
(* The host's Date, in local time                                          *)
(***************************************************************************)
MsPerSecond == 1000

MsPerMinute == 1000 * 60

MsPerHour == 1000 * 60 * 60

MsPerDay == 1000 * 60 * 60 * 24

NullDate == [tag |-> "null", d |-> 0, ms |-> 0]

UndefinedDate == [tag |-> "undefined", d |-> 0, ms |-> 0]

InvalidDate == [tag |-> "invalid", d |-> 0, ms |-> 0]

\* the value of a call that threw
Thrown == [tag |-> "throw", d |-> 0, ms |-> 0]

IsDate(t) == t.tag = "date"

\* the time values of a Date reach 100,000,000 days (8.64e15 ms) either side
\* of 1970-01-01
MaxTimeDays == 100 * 1000 * 1000

\* TimeClip: a time value out of that range makes the Date an Invalid Date
TimeClip(t) ==
  IF \/ t.d > MaxTimeDays
     \/ t.d = MaxTimeDays /\ t.ms > 0
     \/ t.d < -MaxTimeDays
    THEN InvalidDate
    ELSE t

\* MakeDate: a day and a time within or beyond it, as one time value
MkDate(day, time) ==
  TimeClip([tag |-> "date", d |-> day + (time \div MsPerDay), ms |-> time % MsPerDay])

\* MakeDay: the day number of year / month (0-based, any integer) / date (any integer)
MakeDay(year, month, date) ==
  LET ym  == year + (month \div 12)
      m   == (month % 12) + 1
      yy  == IF m <= 2 THEN ym - 1 ELSE ym
      era == yy \div 400
      yoe == yy - era * 400
      mp  == IF m > 2 THEN m - 3 ELSE m + 9
      doy == (153 * mp + 2) \div 5
      doe == yoe * 365 + (yoe \div 4) - (yoe \div 100) + doy
  IN  era * 146097 + doe - 719468 + (date - 1)

\* the calendar fields of a day number: year, month (0-based), date
Civil(day) ==
  LET z   == day + 719468
      era == z \div 146097
      doe == z - era * 146097
      yoe == (doe - (doe \div 1460) + (doe \div 36524) - (doe \div 146096)) \div 365
      doy == doe - (365 * yoe + (yoe \div 4) - (yoe \div 100))
      mp  == (5 * doy + 2) \div 153
      dt  == doy - ((153 * mp + 2) \div 5) + 1
      m   == IF mp < 10 THEN mp + 3 ELSE mp - 9
  IN  [year |-> yoe + era * 400 + (IF m <= 2 THEN 1 ELSE 0), month |-> m - 1, date |-> dt]

GetFullYear(t) == Civil(t.d).year

GetMonth(t) == Civil(t.d).month

GetDate(t) == Civil(t.d).date

\* 0 = Sunday; 1970-01-01 was a Thursday
GetDay(t) == (t.d + 4) % 7

GetHours(t) == t.ms \div MsPerHour

GetMinutes(t) == (t.ms \div MsPerMinute) % 60

GetSeconds(t) == (t.ms \div MsPerSecond) % 60

GetMilliseconds(t) == t.ms % MsPerSecond

\* setDate(n): the n-th day of t's month, n any integer, the clock time kept
SetDate(t, n) ==
  IF ~IsDate(t) THEN t ELSE MkDate(MakeDay(GetFullYear(t), GetMonth(t), n), t.ms)

\* a variant: an invalid day of month becomes the month's last day
SetMonthClamped(t, m) ==
  IF ~IsDate(t) THEN t
  ELSE IF MakeDay(GetFullYear(t), m, GetDate(t)) >= MakeDay(GetFullYear(t), m + 1, 1)
    THEN MkDate(MakeDay(GetFullYear(t), m + 1, 1) - 1, t.ms)
  ELSE MkDate(MakeDay(GetFullYear(t), m, GetDate(t)), t.ms)

\* setMonth(m): the date kept, an invalid day of month rolls over
SetMonth(t, m) ==
  IF ~IsDate(t) THEN t ELSE MkDate(MakeDay(GetFullYear(t), m, GetDate(t)), t.ms)

\* setMonth(m, date)
SetMonthDate(t, m, date) ==
  IF ~IsDate(t) THEN t ELSE MkDate(MakeDay(GetFullYear(t), m, date), t.ms)

\* setFullYear(y)
SetFullYear(t, y) ==
  IF ~IsDate(t) THEN t ELSE MkDate(MakeDay(y, GetMonth(t), GetDate(t)), t.ms)

\* setHours(h, m, s, ms)
SetHoursAll(t, h, m, s, ms) ==
  IF ~IsDate(t) THEN t
  ELSE MkDate(t.d, h * MsPerHour + m * MsPerMinute + s * MsPerSecond + ms)

\* setHours(h): minutes, seconds and milliseconds kept; h any integer
SetHours(t, h) ==
  IF ~IsDate(t) THEN t
  ELSE MkDate(t.d + (h \div 24), (h % 24) * MsPerHour + (t.ms % MsPerHour))

\* setMinutes(m): hours, seconds and milliseconds kept; m any integer
SetMinutes(t, m) ==
  IF ~IsDate(t) THEN t
  ELSE LET total == GetHours(t) * 60 + m
       IN  MkDate(t.d + (total \div (24 * 60)),
                  (total % (24 * 60)) * MsPerMinute + (t.ms % MsPerMinute))

\* setSeconds(s): hours, minutes and milliseconds kept; s any integer
SetSeconds(t, s) ==
  IF ~IsDate(t) THEN t
  ELSE LET total == (t.ms \div MsPerMinute) * 60 + s
       IN  MkDate(t.d + (total \div (24 * 60 * 60)),
                  (total % (24 * 60 * 60)) * MsPerSecond + (t.ms % MsPerSecond))

\* setMilliseconds(ms): ms any integer
SetMilliseconds(t, ms) ==
  IF ~IsDate(t) THEN t
  ELSE MkDate(t.d, (t.ms \div MsPerSecond) * MsPerSecond + ms)

(***************************************************************************)
(* src/core/index.ts                                                       *)
(***************************************************************************)
\* toDate of a Date: a new Date of the same time value
ToDate(value) == value

\* a variant: the copy loses the time of day
CloneOfDay(date) == [ToDate(date) EXCEPT !.ms = 0]

\* clone
Clone(date) == ToDate(date)

\* now(): the system clock
Now(clock) == clock

\* today(): the system clock's day at midnight
Today(clock) == SetHoursAll(clock, 0, 0, 0, 0)

\* tomorrow()
Tomorrow(clock) == SetDate(Today(clock), GetDate(Today(clock)) + 1)

\* yesterday()
Yesterday(clock) == SetDate(Today(clock), GetDate(Today(clock)) - 1)

(***************************************************************************)
(* src/utils/index.ts                                                      *)
(***************************************************************************)
TimeUnits ==
  {"millisecond", "second", "minute", "hour", "day", "week", "month", "year"}

\* Math.floor(diff / k) of the milliseconds diff from b to a, for a k that
\* divides the milliseconds of a day
FloorDiff(a, b, k) == (a.d - b.d) * (MsPerDay \div k) + ((a.ms - b.ms) \div k)

\* a variant: the months compared without the years
DifferenceInMonthOfYear(a, b, unit) ==
  CASE unit = "millisecond" -> FloorDiff(a, b, 1)
    [] unit = "second"      -> FloorDiff(a, b, MsPerSecond)
    [] unit = "minute"      -> FloorDiff(a, b, MsPerMinute)
    [] unit = "hour"        -> FloorDiff(a, b, MsPerHour)
    [] unit = "day"         -> FloorDiff(a, b, MsPerDay)
    [] unit = "week"        -> FloorDiff(a, b, MsPerDay) \div 7
    [] unit = "month"       -> GetMonth(a) - GetMonth(b)
    [] unit = "year"        -> GetFullYear(a) - GetFullYear(b)

\* differenceIn of two valid Dates and one of the eight units (core/index.ts)
DifferenceIn(a, b, unit) ==
  CASE unit = "millisecond" -> FloorDiff(a, b, 1)
    [] unit = "second"      -> FloorDiff(a, b, MsPerSecond)
    [] unit = "minute"      -> FloorDiff(a, b, MsPerMinute)
    [] unit = "hour"        -> FloorDiff(a, b, MsPerHour)
    [] unit = "day"         -> FloorDiff(a, b, MsPerDay)
    [] unit = "week"        -> FloorDiff(a, b, MsPerDay) \div 7
    [] unit = "month"       -> (GetFullYear(a) - GetFullYear(b)) * 12
                                 + (GetMonth(a) - GetMonth(b))
    [] unit = "year"        -> GetFullYear(a) - GetFullYear(b)

\* add(date, amount, unit)
Add(date, amount, unit) ==
  LET result == Clone(date)
  IN  CASE unit = "millisecond" -> SetMilliseconds(result, GetMilliseconds(result) + amount)
        [] unit = "second"      -> SetSeconds(result, GetSeconds(result) + amount)
        [] unit = "minute"      -> SetMinutes(result, GetMinutes(result) + amount)
        [] unit = "hour"        -> SetHours(result, GetHours(result) + amount)
        [] unit = "day"         -> SetDate(result, GetDate(result) + amount)
        [] unit = "week"        -> SetDate(result, GetDate(result) + amount * 7)
        [] unit = "month"       -> SetMonth(result, GetMonth(result) + amount)
        [] unit = "year"        -> SetFullYear(result, GetFullYear(result) + amount)
        [] OTHER                -> Thrown

\* subtract(date, amount, unit)
Subtract(date, amount, unit) == Add(date, -amount, unit)

StartOfDay(date) == SetHoursAll(Clone(date), 0, 0, 0, 0)

EndOfDay(date) == SetHoursAll(Clone(date), 23, 59, 59, 999)

StartOfWeek(date, weekStartsOn) ==
  LET result == StartOfDay(date)
      day    == GetDay(result)
      diff   == (IF day < weekStartsOn THEN 7 ELSE 0) + day - weekStartsOn
  IN  SetDate(result, GetDate(result) - diff)

EndOfWeek(date, weekStartsOn) ==
  LET result == StartOfWeek(date, weekStartsOn)
  IN  EndOfDay(SetDate(result, GetDate(result) + 6))

StartOfMonth(date) == StartOfDay(SetDate(Clone(date), 1))

EndOfMonth(date) ==
  LET result == Clone(date)
  IN  EndOfDay(SetMonthDate(result, GetMonth(result) + 1, 0))

StartOfYear(date) == StartOfDay(SetMonthDate(Clone(date), 0, 1))

EndOfYear(date) == EndOfDay(SetMonthDate(Clone(date), 11, 31))

(***************************************************************************)
(* Date objects.  A heap is the sequence of the Date objects made so far,  *)
(* an object is its index in it, and a function that takes and returns     *)
(* objects is modelled by the heap it leaves, the object it returns (ret,   *)
(* 0 when it throws or returns a number), the number it returns and the    *)
(* error it throws (<<>> when it returns).                                 *)
(***************************************************************************)
\* new Date(v)
HNew(h, v) == [heap |-> Append(h, v), ret |-> Len(h) + 1, num |-> 0, error |-> <<>>]

\* a call of a Date setter on the object o.ret, leaving it with the value v
HSet(o, v) == [o EXCEPT !.heap = [o.heap EXCEPT ![o.ret] = v]]

\* a variant: the error does not say which unit
HThrowUnnamed(h, unit) ==
  [heap |-> h, ret |-> 0, num |-> 0, error |-> <<"Unknown unit">>]

\* throw new Error(`Unknown unit: ${unit}`)
HThrowUnit(h, unit) ==
  [heap |-> h, ret |-> 0, num |-> 0, error |-> <<"Unknown unit: ", unit>>]

\* toDate(value), value a Date: new Date(value)
HToDate(h, r) == HNew(h, h[r])

\* differenceIn: dateA = toDate(a), dateB = toDate(b), then the switch
HDifferenceIn(h, a, b, unit) ==
  LET dateA == HToDate(h, a)
      dateB == HToDate(dateA.heap, b)
  IN  IF unit \in TimeUnits
        THEN [heap |-> dateB.heap, ret |-> 0,
              num |-> DifferenceIn(dateB.heap[dateA.ret], dateB.heap[dateB.ret], unit),
              error |-> <<>>]
        ELSE HThrowUnit(dateB.heap, unit)

\* a variant: the argument itself is handed back
HCloneSame(h, r) == [heap |-> h, ret |-> r, num |-> 0, error |-> <<>>]

\* clone(date): new Date(toDate(date))
HClone(h, r) == HNew(HToDate(h, r).heap, HToDate(h, r).heap[HToDate(h, r).ret])

\* add: result = clone(date), then the setter of the unit on result
HAdd(h, r, amount, unit) ==
  LET result == HClone(h, r)
  IN  IF unit \in TimeUnits
        THEN HSet(result, Add(result.heap[result.ret], amount, unit))
        ELSE HThrowUnit(result.heap, unit)

\* a variant: the amount is not negated
HSubtractSameSign(h, r, amount, unit) == HAdd(h, r, amount, unit)

\* subtract
HSubtract(h, r, amount, unit) == HAdd(h, r, -amount, unit)

\* the value of the object a call returned
HValue(o) == o.heap[o.ret]

\* startOfDay: result = clone(date), then setHours on result
HStartOfDay(h, r) ==
  LET result == HClone(h, r) IN HSet(result, SetHoursAll(HValue(result), 0, 0, 0, 0))

HEndOfDay(h, r) ==
  LET result == HClone(h, r) IN HSet(result, SetHoursAll(HValue(result), 23, 59, 59, 999))

\* startOfWeek: result = startOfDay(date), then setDate on result
\* a variant: no week added when the day precedes weekStartsOn
HStartOfWeekNoWrap(h, r, weekStartsOn) ==
  LET result == HStartOfDay(h, r)
      day    == GetDay(HValue(result))
      diff   == day - weekStartsOn
  IN  HSet(result, SetDate(HValue(result), GetDate(HValue(result)) - diff))

HStartOfWeek(h, r, weekStartsOn) ==
  LET result == HStartOfDay(h, r)
      day    == GetDay(HValue(result))
      diff   == (IF day < weekStartsOn THEN 7 ELSE 0) + day - weekStartsOn
  IN  HSet(result, SetDate(HValue(result), GetDate(HValue(result)) - diff))

\* endOfWeek: result = startOfWeek(date), setDate on result, endOfDay(result)
HEndOfWeek(h, r, weekStartsOn) ==
  LET result == HStartOfWeek(h, r, weekStartsOn)
  IN  HEndOfDay(HSet(result, SetDate(HValue(result), GetDate(HValue(result)) + 6)).heap,
                result.ret)

\* startOfMonth: result = clone(date), setDate(1), startOfDay(result)
HStartOfMonth(h, r) ==
  LET result == HClone(h, r)
  IN  HStartOfDay(HSet(result, SetDate(HValue(result), 1)).heap, result.ret)

\* a variant: setMonth without its date argument
HEndOfMonthNoDay(h, r) ==
  LET result == HClone(h, r)
  IN  HEndOfDay(HSet(result, SetMonth(HValue(result), GetMonth(HValue(result)) + 1)).heap,
                result.ret)

HEndOfMonth(h, r) ==
  LET result == HClone(h, r)
  IN  HEndOfDay(HSet(result, SetMonthDate(HValue(result), GetMonth(HValue(result)) + 1, 0)).heap,
                result.ret)

HStartOfYear(h, r) ==
  LET result == HClone(h, r)
  IN  HStartOfDay(HSet(result, SetMonthDate(HValue(result), 0, 1)).heap, result.ret)

HEndOfYear(h, r) ==
  LET result == HClone(h, r)
  IN  HEndOfDay(HSet(result, SetMonthDate(HValue(result), 11, 31)).heap, result.ret)

(***************************************************************************)
(* Regular expressions: a match state is a position and the groups         *)
(* captured so far; a pattern element maps a state to the sequence of the  *)
(* states it can end in, in the order a backtracking matcher tries them.   *)
(* The first state that survives the whole pattern is the match.           *)
(***************************************************************************)
RxStart == [pos |-> 1, caps |-> <<>>]

RECURSIVE Flatten(_)
Flatten(ss) == IF ss = <<>> THEN <<>> ELSE Head(ss) \o Flatten(Tail(ss))

\* sequencing: each state of ms, in order, continued by F
Bind(ms, F(_)) == Flatten([i \in 1..Len(ms) |-> F(ms[i])])

\* a literal word, under the i flag
RxLit(s, m, word) ==
  IF /\ m.pos + Len(word) - 1 <= Len(s)
     /\ \A j \in 1..Len(word) : ToLowerChar(s[m.pos + j - 1]) = word[j]
    THEN <<[pos |-> m.pos + Len(word), caps |-> m.caps]>>
    ELSE <<>>

\* the length of the run of characters of s from position p on that satisfy Is
RunLength(s, p, Is(_)) ==
  LET stop == {i \in p..Len(s) : ~Is(s[i])}
  IN  IF stop = {} THEN Len(s) + 1 - p ELSE SetMin(stop) - p

\* a greedy one-or-more: the longest run first, then shorter ones
RxPlus(s, m, Is(_)) ==
  LET k == RunLength(s, m.pos, Is)
  IN  [i \in 1..k |-> [pos |-> m.pos + (k + 1 - i), caps |-> m.caps]]

\* \s+
RxWs1(s, m) == RxPlus(s, m, IsWhitespace)

\* \d+
RxDigits1(s, m) == RxPlus(s, m, IsDigit)

\* $
\* a variant: the end of the input not required
RxEndAnywhere(s, m) == <<m>>

RxEnd(s, m) == IF m.pos = Len(s) + 1 THEN <<m>> ELSE <<>>

\* a capturing group that began at state m and can end in the states ms
RxCap(s, m, ms) ==
  [i \in 1..Len(ms) |->
     [pos |-> ms[i].pos, caps |-> Append(m.caps, SubSeq(s, m.pos, ms[i].pos - 1))]]

\* the result of String.prototype.match: the first surviving state, or no match
NoMatch == [found |-> FALSE, text |-> <<>>, caps |-> <<>>]

RxMatch(s, ms) ==
  IF ms = <<>> THEN NoMatch
  ELSE [found |-> TRUE, text |-> SubSeq(s, 1, Head(ms).pos - 1), caps |-> Head(ms).caps]

(***************************************************************************)
(* src/nlp/index.ts: the words of the patterns                             *)
(***************************************************************************)
Lex ==
  [w_today |-> <<"t","o","d","a","y">>,
   w_now |-> <<"n","o","w">>,
   w_tomorrow |-> <<"t","o","m","o","r","r","o","w">>,
   w_yesterday |-> <<"y","e","s","t","e","r","d","a","y">>,
   w_in |-> <<"i","n">>,
   w_from |-> <<"f","r","o","m">>,
   w_ahead |-> <<"a","h","e","a","d">>,
   w_ago |-> <<"a","g","o">>,
   w_next |-> <<"n","e","x","t">>,
   w_last |-> <<"l","a","s","t">>,
   w_this |-> <<"t","h","i","s">>,
   w_beginning |-> <<"b","e","g","i","n","n","i","n","g">>,
   w_start |-> <<"s","t","a","r","t">>,
   w_of |-> <<"o","f">>,
   w_the |-> <<"t","h","e">>,
   w_month |-> <<"m","o","n","t","h">>,
   w_week |-> <<"w","e","e","k">>,
   w_end |-> <<"e","n","d">>,
   w_noon |-> <<"n","o","o","n">>,
   w_midnight |-> <<"m","i","d","n","i","g","h","t">>,
   w_s |-> <<"s">>]

\* the unit alternation, in the order the patterns list it
UnitWords ==
  <<<<"m","i","l","l","i","s","e","c","o","n","d">>,
    <<"s","e","c","o","n","d">>,
    <<"m","i","n","u","t","e">>,
    <<"h","o","u","r">>,
    <<"d","a","y">>,
    <<"w","e","e","k">>,
    <<"m","o","n","t","h">>,
    <<"y","e","a","r">>>>

UnitNames ==
  <<"millisecond", "second", "minute", "hour", "day", "week", "month", "year">>

\* the weekdays array
Weekdays ==
  <<<<"s","u","n","d","a","y">>,
    <<"m","o","n","d","a","y">>,
    <<"t","u","e","s","d","a","y">>,
    <<"w","e","d","n","e","s","d","a","y">>,
    <<"t","h","u","r","s","d","a","y">>,
    <<"f","r","i","d","a","y">>,
    <<"s","a","t","u","r","d","a","y">>>>

(***************************************************************************)
(* src/nlp/index.ts: the recognizers                                       *)
(***************************************************************************)
\* the confidences, in hundredths
ConfKeyword == 95

ConfRelative == 90

ConfWeekday == 85

\* a variant: period references given the weekday tier
ConfPeriodAsWeekday == ConfWeekday

ConfPeriod == 80

ConfTime == 75

ConfFallback == 50

\* a variant: the failure result carrying the fallback's confidence
NoResultHalf(input) ==
  [date |-> NullDate, confidence |-> ConfFallback, matched |-> <<>>, remaining |-> input]

\* the result of a recognizer that did not match
NoResult(input) ==
  [date |-> NullDate, confidence |-> 0, matched |-> <<>>, remaining |-> input]

\* the result of a call that threw
ThrownResult ==
  [date |-> Thrown, confidence |-> 0, matched |-> <<>>, remaining |-> <<>>]

\* a variant: the matched text is not taken out
RemainingWhole(input, text) == Trim(input)

\* input.replace(match[0], '').trim()
Remaining(input, text) == Trim(ReplaceFirst(input, text))

\* (?:\s+|$)
RxWsOrEnd(s, m) == RxWs1(s, m) \o RxEnd(s, m)

\* /^(today|now)(?:\s+|$)/i
RxTodayNow(s) ==
  Bind(RxCap(s, RxStart, RxLit(s, RxStart, Lex.w_today) \o RxLit(s, RxStart, Lex.w_now)),
       LAMBDA m : RxWsOrEnd(s, m))

\* /^tomorrow(?:\s+|$)/i
RxTomorrow(s) == Bind(RxLit(s, RxStart, Lex.w_tomorrow), LAMBDA m : RxWsOrEnd(s, m))

\* /^yesterday(?:\s+|$)/i
RxYesterday(s) == Bind(RxLit(s, RxStart, Lex.w_yesterday), LAMBDA m : RxWsOrEnd(s, m))

\* parseRelativeKeywords: the regex of each entry of the patterns array
KeywordPatterns(input) ==
  << RxMatch(input, RxTodayNow(input)),
     RxMatch(input, RxTomorrow(input)),
     RxMatch(input, RxYesterday(input)) >>

\* parseRelativeKeywords: the fn of the i-th entry; each reads the system clock
KeywordFn(i, clock) ==
  CASE i = 1 -> Today(clock)
    [] i = 2 -> Tomorrow(clock)
    [] i = 3 -> Yesterday(clock)

\* the loop over a patterns array: the first pattern that matches decides
FirstMatching(patterns) ==
  LET hit == {i \in 1..Len(patterns) : patterns[i].found}
  IN  IF hit = {} THEN 0 ELSE SetMin(hit)

ParseRelativeKeywords(input, defaultDate, clock) ==
  LET patterns == KeywordPatterns(input)
      i        == FirstMatching(patterns)
  IN  IF i = 0 THEN NoResult(input)
      ELSE [date       |-> KeywordFn(i, clock),
            confidence |-> ConfKeyword,
            matched    |-> Trim(patterns[i].text),
            remaining  |-> Remaining(input, patterns[i].text)]

\* (milliseconds?|seconds?|minutes?|hours?|days?|weeks?|months?|years?)
RxUnit(s, m) ==
  Flatten([i \in 1..Len(UnitWords) |->
             Bind(RxLit(s, m, UnitWords[i]), LAMBDA n : RxLit(s, n, Lex.w_s) \o <<n>>)])

\* (?:\s+(?:from\s+now|ahead))?
RxFromNowOrAhead(s, m) ==
  Bind(RxWs1(s, m),
       LAMBDA n : Bind(Bind(RxLit(s, n, Lex.w_from), LAMBDA k : RxWs1(s, k)),
                       LAMBDA k : RxLit(s, k, Lex.w_now))
                  \o RxLit(s, n, Lex.w_ahead))
  \o <<m>>

\* (\d+)\s+(unit)
RxAmountUnit(s, m) ==
  Bind(Bind(RxCap(s, m, RxDigits1(s, m)), LAMBDA n : RxWs1(s, n)),
       LAMBDA n : RxCap(s, n, RxUnit(s, n)))

\* futurePattern
RxFuture(s) ==
  Bind(Bind(Bind(Bind(RxLit(s, RxStart, Lex.w_in), LAMBDA m : RxWs1(s, m)) \o <<RxStart>>,
                 LAMBDA m : RxAmountUnit(s, m)),
            LAMBDA m : RxFromNowOrAhead(s, m)),
       LAMBDA m : RxEnd(s, m))

\* pastPattern
\* a variant: the ago of pastPattern optional
RxPastAgoOptional(s) ==
  Bind(Bind(RxAmountUnit(s, RxStart),
            LAMBDA m : Bind(RxWs1(s, m), LAMBDA k : RxLit(s, k, Lex.w_ago)) \o <<m>>),
       LAMBDA m : RxEnd(s, m))

RxPast(s) ==
  Bind(Bind(Bind(RxAmountUnit(s, RxStart), LAMBDA m : RxWs1(s, m)),
            LAMBDA m : RxLit(s, m, Lex.w_ago)),
       LAMBDA m : RxEnd(s, m))

\* a variant: the trailing s is kept
StripPluralKeeps(unit) == ToLowerCase(unit)

\* unit.toLowerCase().replace(/s$/, '')
StripPlural(unit) ==
  LET lower == ToLowerCase(unit)
  IN  IF Len(lower) > 0 /\ lower[Len(lower)] = "s"
        THEN SubSeq(lower, 1, Len(lower) - 1)
        ELSE lower

\* a variant: the switch without its 'millisecond' case
NormalizeTimeUnitFewer(unit) ==
  IF IndexIn(UnitWords, StripPlural(unit)) > 1
    THEN UnitNames[IndexIn(UnitWords, StripPlural(unit))]
    ELSE "throw"

\* normalizeTimeUnit: the TimeUnit, or "throw" for the default branch
NormalizeTimeUnit(unit) ==
  LET normalized == StripPlural(unit)
      i          == IndexIn(UnitWords, normalized)
  IN  IF i > 0 THEN UnitNames[i] ELSE "throw"

ParseRelativeTime(input, defaultDate) ==
  LET future == RxMatch(input, RxFuture(input))
      past   == RxMatch(input, RxPast(input))
  IN  IF future.found
        THEN [date       |-> Add(defaultDate, ParseInt(future.caps[1]),
                                 NormalizeTimeUnit(future.caps[2])),
              confidence |-> ConfRelative,
              matched    |-> future.text,
              remaining  |-> Remaining(input, future.text)]
      ELSE IF past.found
        THEN [date       |-> Subtract(defaultDate, ParseInt(past.caps[1]),
                                      NormalizeTimeUnit(past.caps[2])),
              confidence |-> ConfRelative,
              matched    |-> past.text,
              remaining  |-> Remaining(input, past.text)]
      ELSE NoResult(input)

\* /^(next|last|this)\s+(sunday|monday|tuesday|wednesday|thursday|friday|saturday)$/i
RxWeekday(s) ==
  Bind(Bind(Bind(RxCap(s, RxStart, RxLit(s, RxStart, Lex.w_next)
                                   \o RxLit(s, RxStart, Lex.w_last)
                                   \o RxLit(s, RxStart, Lex.w_this)),
                 LAMBDA m : RxWs1(s, m)),
            LAMBDA m : RxCap(s, m, Flatten([i \in 1..Len(Weekdays) |->
                                              RxLit(s, m, Weekdays[i])]))),
       LAMBDA m : RxEnd(s, m))

\* a variant: 'next' on the reference's own weekday stays on the reference
DaysToAddSameDay(modifier, targetDay, currentDay) ==
  LET delta == targetDay - currentDay
  IN  IF modifier = Lex.w_next THEN (IF delta < 0 THEN delta + 7 ELSE delta)
      ELSE IF modifier = Lex.w_last THEN (IF delta >= 0 THEN delta - 7 ELSE delta)
      ELSE IF modifier = Lex.w_this THEN (IF delta < 0 THEN delta + 7 ELSE delta)
      ELSE delta

\* the number of days parseWeekdays moves by
DaysToAdd(modifier, targetDay, currentDay) ==
  LET delta == targetDay - currentDay
  IN  IF modifier = Lex.w_next THEN (IF delta <= 0 THEN delta + 7 ELSE delta)
      ELSE IF modifier = Lex.w_last THEN (IF delta >= 0 THEN delta - 7 ELSE delta)
      ELSE IF modifier = Lex.w_this THEN (IF delta < 0 THEN delta + 7 ELSE delta)
      ELSE delta

ParseWeekdays(input, defaultDate) ==
  LET match == RxMatch(input, RxWeekday(input))
  IN  IF ~match.found THEN NoResult(input)
      ELSE LET modifier  == ToLowerCase(match.caps[1])
               weekday   == ToLowerCase(match.caps[2])
               \* indexOf: 0-based, -1 when absent
               targetDay == IndexIn(Weekdays, weekday) - 1
               daysToAdd == DaysToAdd(modifier, targetDay, GetDay(defaultDate))
               moved     == SetDate(defaultDate, GetDate(defaultDate) + daysToAdd)
           IN  IF targetDay = -1 THEN NoResult(input)
               ELSE [date       |-> SetHoursAll(moved, 0, 0, 0, 0),
                     confidence |-> ConfWeekday,
                     matched    |-> match.text,
                     remaining  |-> Remaining(input, match.text)]

\* (?:beginning|start)\s+of\s+(?:the\s+)?  or  end\s+of\s+(?:the\s+)?
RxOfThe(s, heads) ==
  Bind(Bind(Bind(heads, LAMBDA m : RxWs1(s, m)),
            LAMBDA m : RxLit(s, m, Lex.w_of)),
       LAMBDA m : Bind(RxWs1(s, m),
                       LAMBDA n : Bind(RxLit(s, n, Lex.w_the), LAMBDA k : RxWs1(s, k))
                                  \o <<n>>))

\* /^(?:beginning|start)\s+of\s+(?:the\s+)?<period>$/i
RxStartOf(s, period) ==
  Bind(Bind(RxOfThe(s, RxLit(s, RxStart, Lex.w_beginning) \o RxLit(s, RxStart, Lex.w_start)),
            LAMBDA m : RxLit(s, m, period)),
       LAMBDA m : RxEnd(s, m))

\* /^end\s+of\s+(?:the\s+)?<period>$/i
RxEndOf(s, period) ==
  Bind(Bind(RxOfThe(s, RxLit(s, RxStart, Lex.w_end)),
            LAMBDA m : RxLit(s, m, period)),
       LAMBDA m : RxEnd(s, m))

\* parseMonthReferences: the regex of each entry of the patterns array
MonthPatterns(input) ==
  << RxMatch(input, RxStartOf(input, Lex.w_month)),
     RxMatch(input, RxEndOf(input, Lex.w_month)),
     RxMatch(input, RxStartOf(input, Lex.w_week)),
     RxMatch(input, RxEndOf(input, Lex.w_week)) >>

\* a variant: weeks that start on Monday
MonthFnMondayWeek(i, defaultDate) ==
  CASE i = 1 -> StartOfMonth(defaultDate)
    [] i = 2 -> EndOfMonth(defaultDate)
    [] i = 3 -> StartOfWeek(defaultDate, 1)
    [] i = 4 -> EndOfWeek(defaultDate, 1)

\* parseMonthReferences: the fn of the i-th entry; weekStartsOn takes its default
MonthFn(i, defaultDate) ==
  CASE i = 1 -> StartOfMonth(defaultDate)
    [] i = 2 -> EndOfMonth(defaultDate)
    [] i = 3 -> StartOfWeek(defaultDate, 0)
    [] i = 4 -> EndOfWeek(defaultDate, 0)

ParseMonthReferences(input, defaultDate) ==
  LET patterns == MonthPatterns(input)
      i        == FirstMatching(patterns)
  IN  IF i = 0 THEN NoResult(input)
      ELSE [date       |-> MonthFn(i, defaultDate),
            confidence |-> ConfPeriod,
            matched    |-> patterns[i].text,
            remaining  |-> Remaining(input, patterns[i].text)]

\* parseTimeExpressions: the regex of each entry, /^noon$/i and /^midnight$/i
TimePatterns(input) ==
  << RxMatch(input, Bind(RxLit(input, RxStart, Lex.w_noon), LAMBDA m : RxEnd(input, m))),
     RxMatch(input, Bind(RxLit(input, RxStart, Lex.w_midnight), LAMBDA m : RxEnd(input, m))) >>

\* a variant: midnight as the end of the day
TimeHoursEndOfDay == <<12, 24>>

\* parseTimeExpressions: the hours of each entry (the minutes are 0)
TimeHours == <<12, 0>>

ParseTimeExpressions(input, defaultDate) ==
  LET patterns == TimePatterns(input)
      i        == FirstMatching(patterns)
  IN  IF i = 0 THEN NoResult(input)
      ELSE [date       |-> SetHoursAll(defaultDate, TimeHours[i], 0, 0, 0),
            confidence |-> ConfTime,
            matched    |-> patterns[i].text,
            remaining  |-> Remaining(input, patterns[i].text)]

(***************************************************************************)
(* src/nlp/index.ts: parseNatural, parse, canParse                         *)
(***************************************************************************)
IsoDigits(s, from, to) == \A i \in from..to : IsDigit(s[i])

\* the date-only form YYYY-MM-DD of the host's date-time string format
IsIsoDateShape(s) ==
  /\ Len(s) = 10
  /\ IsoDigits(s, 1, 4) /\ s[5] = "-" /\ IsoDigits(s, 6, 7) /\ s[8] = "-" /\ IsoDigits(s, 9, 10)

\* the form YYYY-MM-DDTHH:mm:ssZ of the host's date-time string format
IsIsoDateTimeShape(s) ==
  /\ Len(s) = 20
  /\ IsIsoDateShape(SubSeq(s, 1, 10))
  /\ s[11] = "T" /\ IsoDigits(s, 12, 13) /\ s[14] = ":" /\ IsoDigits(s, 15, 16)
  /\ s[17] = ":" /\ IsoDigits(s, 18, 19) /\ s[20] = "Z"

\* the time within the day that HH:mm:ss names, or -1 when it names none
IsoTimeOfDay(h, mi, sec) ==
  IF (h \in 0..23 /\ mi \in 0..59 /\ sec \in 0..59) \/ (h = 24 /\ mi = 0 /\ sec = 0)
    THEN h * MsPerHour + mi * MsPerMinute + sec * MsPerSecond
    ELSE -1

\* the Date of the fields of a string in the date-time string format
IsoDate(y, m, dt, time) ==
  IF /\ m \in 1..12
     /\ dt >= 1
     /\ MakeDay(y, m - 1, dt) < MakeDay(y, m, 1)
     /\ time >= 0
    THEN MkDate(MakeDay(y, m - 1, dt), time)
    ELSE InvalidDate

\* new Date(input) of a string.  A string in the date-only form is that day
\* at 00:00 UTC, one in the form with a time and Z that instant, or an Invalid
\* Date when a field is out of range; what any other string yields is left to
\* the host, and is the parameter host.
HostParse(s, host) ==
  IF IsIsoDateShape(s)
    THEN IsoDate(ParseInt(SubSeq(s, 1, 4)), ParseInt(SubSeq(s, 6, 7)),
                 ParseInt(SubSeq(s, 9, 10)), 0)
  ELSE IF IsIsoDateTimeShape(s)
    THEN IsoDate(ParseInt(SubSeq(s, 1, 4)), ParseInt(SubSeq(s, 6, 7)),
                 ParseInt(SubSeq(s, 9, 10)),
                 IsoTimeOfDay(ParseInt(SubSeq(s, 12, 13)), ParseInt(SubSeq(s, 15, 16)),
                              ParseInt(SubSeq(s, 18, 19))))
  ELSE host

\* the DateLike values: a Date object (a cell of the heap), a string, a
\* number (NaN, or the time value of day d and ms milliseconds within it), or
\* a value of another type
DateValue(ref) == [kind |-> "Date", ref |-> ref, text |-> <<>>, nan |-> FALSE, d |-> 0, ms |-> 0]

StringValue(text) ==
  [kind |-> "string", ref |-> 0, text |-> text, nan |-> FALSE, d |-> 0, ms |-> 0]

NumberValue(d, ms) ==
  [kind |-> "number", ref |-> 0, text |-> <<>>, nan |-> FALSE, d |-> d, ms |-> ms]

NaNValue == [kind |-> "number", ref |-> 0, text |-> <<>>, nan |-> TRUE, d |-> 0, ms |-> 0]

ObjectValue == [kind |-> "object", ref |-> 0, text |-> <<>>, nan |-> FALSE, d |-> 0, ms |-> 0]

\* new Date(value) of a string or a number
NewDateOf(value, host) ==
  IF value.kind = "string" THEN HostParse(value.text, host)
  ELSE IF value.nan THEN InvalidDate
  ELSE TimeClip([tag |-> "date", d |-> value.d, ms |-> value.ms])

\* throw new Error(`Invalid date: ${value}`)
HThrowInvalid(h, value) ==
  [heap |-> h, ret |-> 0, num |-> 0, error |-> <<"Invalid date: ", value>>]

\* a variant: the Date of a string or number returned unexamined
HToDateUnchecked(h, value, host) ==
  CASE value.kind = "Date" -> HToDate(h, value.ref)
    [] value.kind \in {"string", "number"} -> HNew(h, NewDateOf(value, host))
    [] OTHER -> [heap |-> h, ret |-> 0, num |-> 0,
                 error |-> <<"Invalid date type: ", value.kind>>]

\* toDate(value), of any value
HToDateOf(h, value, host) ==
  CASE value.kind = "Date" -> HToDate(h, value.ref)
    [] value.kind \in {"string", "number"} ->
         IF IsDate(NewDateOf(value, host))
           THEN HNew(h, NewDateOf(value, host))
           ELSE HThrowInvalid(h, value)
    [] OTHER -> [heap |-> h, ret |-> 0, num |-> 0,
                 error |-> <<"Invalid date type: ", value.kind>>]

\* a variant: weekdays tried before offsets
ParsersWeekdaysFirst ==
  << "parseRelativeKeywords", "parseWeekdays", "parseRelativeTime",
     "parseMonthReferences", "parseTimeExpressions" >>

\* the parsers array
Parsers ==
  << "parseRelativeKeywords", "parseRelativeTime", "parseWeekdays",
     "parseMonthReferences", "parseTimeExpressions" >>

\* parser(normalizedInput, defaultDate)
RunParser(name, input, defaultDate, clock) ==
  CASE name = "parseRelativeKeywords" -> ParseRelativeKeywords(input, defaultDate, clock)
    [] name = "parseRelativeTime"     -> ParseRelativeTime(input, defaultDate)
    [] name = "parseWeekdays"         -> ParseWeekdays(input, defaultDate)
    [] name = "parseMonthReferences"  -> ParseMonthReferences(input, defaultDate)
    [] name = "parseTimeExpressions"  -> ParseTimeExpressions(input, defaultDate)

\* the loop over the parsers from the i-th on: tried is the sequence of the
\* parsers run, matched whether one of them returned a date
RECURSIVE TryParsers(_, _, _, _, _, _)

\* the body of the loop, r being what the i-th parser returned
LoopBody(r, parsers, i, tried, normalizedInput, defaultDate, clock) ==
  IF r.date.tag = "throw"
    THEN [result |-> ThrownResult, tried |-> Append(tried, parsers[i]), matched |-> TRUE]
  ELSE IF r.date.tag # "null"
    THEN [result |-> r, tried |-> Append(tried, parsers[i]), matched |-> TRUE]
  ELSE TryParsers(parsers, i + 1, Append(tried, parsers[i]),
                  normalizedInput, defaultDate, clock)

TryParsers(parsers, i, tried, normalizedInput, defaultDate, clock) ==
  IF i > Len(parsers)
    THEN [result |-> NoResult(normalizedInput), tried |-> tried, matched |-> FALSE]
  ELSE LoopBody(RunParser(parsers[i], normalizedInput, defaultDate, clock),
                parsers, i, tried, normalizedInput, defaultDate, clock)

\* a variant: lower case without the trim
NormalizeUntrimmed(input) == ToLowerCase(input)

\* input.toLowerCase().trim()
Normalize(input) == Trim(ToLowerCase(input))

\* a variant: the parsers given the input as written
ParseLoopAsWritten(input, opts, clock) ==
  TryParsers(Parsers, 1, <<>>, input,
             IF opts.defaultDate.tag = "undefined" THEN Now(clock) ELSE opts.defaultDate,
             clock)

\* parseNatural, up to the end of the loop
ParseLoop(input, opts, clock) ==
  LET defaultDate == IF opts.defaultDate.tag = "undefined" THEN Now(clock)
                     ELSE opts.defaultDate
  IN  TryParsers(Parsers, 1, <<>>, Normalize(input), defaultDate, clock)

\* a variant: strict does not stop the host's parse
SkipsFallbackNever(strict) == FALSE

\* if (strict): the host's parse is skipped
SkipsFallback(strict) == strict

\* a variant: the fallback reporting the normalized input as matched
FallbackResultNormalized(input, date) ==
  [date |-> date, confidence |-> ConfFallback,
   matched |-> Trim(ToLowerCase(input)), remaining |-> <<>>]

\* the result returned when new Date(input) is a valid date
FallbackResult(input, date) ==
  [date |-> date, confidence |-> ConfFallback, matched |-> input, remaining |-> <<>>]

\* parseNatural, after the loop: the loop's match, or else the strict return,
\* the host's parse, the failure; fallback is whether new Date(input) was run
\* and hostDate is what it gave
AfterParsers(loop, input, strict, host) ==
  LET rest == [tried |-> loop.tried, matched |-> loop.matched]
  IN  IF loop.matched
        THEN rest @@ [result |-> loop.result, fallback |-> FALSE, hostDate |-> NullDate]
      ELSE IF SkipsFallback(strict)
        THEN rest @@ [result |-> NoResult(Normalize(input)), fallback |-> FALSE,
                      hostDate |-> NullDate]
      ELSE IF IsDate(HostParse(input, host))
        THEN rest @@ [result   |-> FallbackResult(input, HostParse(input, host)),
                      fallback |-> TRUE, hostDate |-> HostParse(input, host)]
      ELSE rest @@ [result |-> NoResult(Normalize(input)), fallback |-> TRUE,
                    hostDate |-> HostParse(input, host)]

\* parseNatural(input, options), the system clock reading clock and the host's
\* Date making host of a string outside its format
ParseNaturalRun(input, opts, clock, host) ==
  AfterParsers(ParseLoop(input, opts, clock), input, opts.strict, host)

ParseNatural(input, opts, clock, host) == ParseNaturalRun(input, opts, clock, host).result

\* parse(input, options): what it returns of parseNatural's result
ParseReturn(result) == result.date

\* the confidence a parse must exceed for canParse, in hundredths
CanParseAbove == 50

\* a variant: 0.5 counted as parseable
CanParseTestAtLeast(result) ==
  result.date.tag # "null" /\ result.confidence >= CanParseAbove

\* canParse(input, options): result.date !== null && result.confidence > 0.5
CanParseTest(result) == result.date.tag # "null" /\ result.confidence > CanParseAbove

\* parseMonthReferences: the fn of the i-th entry, called on the object r
HMonthFn(i, h, r) ==
  CASE i = 1 -> HStartOfMonth(h, r)
    [] i = 2 -> HEndOfMonth(h, r)
    [] i = 3 -> HStartOfWeek(h, r, 0)
    [] i = 4 -> HEndOfWeek(h, r, 0)

\* the Date object of parseNatural's result, defaultDate being the object r
\* and done the run of the call on its value: each recognizer makes its date
\* with today(), add or subtract, new Date(defaultDate) and its setters, or a
\* start/end function; the fallback with new Date(input)
HResultDate(h, r, done, normalizedInput) ==
  IF done.result.date.tag = "null" THEN [heap |-> h, ret |-> 0, num |-> 0, error |-> <<>>]
  ELSE IF ~done.matched THEN HNew(h, done.result.date)
  ELSE CASE done.tried[Len(done.tried)] = "parseRelativeKeywords"
              -> HNew(h, done.result.date)
         [] done.tried[Len(done.tried)] = "parseRelativeTime"
              -> HSet(HClone(h, r), done.result.date)
         [] done.tried[Len(done.tried)] = "parseMonthReferences"
              -> HMonthFn(FirstMatching(MonthPatterns(normalizedInput)), h, r)
         [] OTHER -> HSet(HNew(h, h[r]), done.result.date)

\* parseNatural(input, { defaultDate: r, strict })
HParseNatural(h, r, input, strict, clock, host) ==
  HResultDate(h, r,
              ParseNaturalRun(input, [defaultDate |-> h[r], strict |-> strict], clock, host),
              Normalize(input))


(***************************************************************************)
(* The calls checked: inputs, options and environment                      *)
(***************************************************************************)
\* an amount the tests use beyond the small ones ('in 1000 days')
LargeAmount == 1000

Amounts == 0..MaxAmount

\* words of the inputs that are not words of the patterns
Sample ==
  [extra |-> <<"e","x","t","r","a">>,
   text |-> <<"t","e","x","t">>,
   please |-> <<"p","l","e","a","s","e">>,
   invalid |-> <<"i","n","v","a","l","i","d">>,
   date |-> <<"d","a","t","e">>,
   string |-> <<"s","t","r","i","n","g">>,
   iso |-> <<"2","0","2","5","-","1","2","-","2","5">>,
   badIso |-> <<"2","0","2","5","-","1","3","-","4","5">>,
   isoTime |-> <<"2","0","2","5","-","1","2","-","2","5","T",
                 "1","0",":","0","0",":","0","0","Z">>,
   todays |-> <<"t","o","d","a","y","s">>,
   nowhere |-> <<"n","o","w","h","e","r","e">>,
   year |-> <<"y","e","a","r">>,
   sharp |-> <<"s","h","a","r","p">>]

RECURSIVE NumToChars(_)
NumToChars(n) ==
  IF n < 10 THEN <<DigitChars[n + 1]>>
  ELSE NumToChars(n \div 10) \o <<DigitChars[(n % 10) + 1]>>

Blanks(n) == [i \in 1..n |-> " "]

\* the words separated by runs of gap blanks
RECURSIVE Join(_, _)
Join(words, gap) ==
  IF words = <<>> THEN <<>>
  ELSE IF Len(words) = 1 THEN words[1]
  ELSE words[1] \o Blanks(gap) \o Join(Tail(words), gap)

\* the unit words as written: singular and plural
UnitForms ==
  {UnitWords[i] : i \in 1..Len(UnitWords)} \cup {UnitWords[i] \o Lex.w_s : i \in 1..Len(UnitWords)}

\* the TimeUnit a written unit word names
UnitOf(u) ==
  UnitNames[CHOOSE i \in 1..Len(UnitWords) : u = UnitWords[i] \/ u = UnitWords[i] \o Lex.w_s]

KeywordWords == {Lex.w_today, Lex.w_now, Lex.w_tomorrow, Lex.w_yesterday}

ModifierWords == {Lex.w_next, Lex.w_last, Lex.w_this}

WeekdayWords == {Weekdays[i] : i \in 1..Len(Weekdays)}

\* the offset phrases of amount n and unit word u, by form
OffsetPhrase(form, n, u) ==
  CASE form = "in"          -> <<Lex.w_in, NumToChars(n), u>>
    [] form = "bare"        -> <<NumToChars(n), u>>
    [] form = "from now"    -> <<NumToChars(n), u, Lex.w_from, Lex.w_now>>
    [] form = "ahead"       -> <<NumToChars(n), u, Lex.w_ahead>>
    [] form = "in ahead"    -> <<Lex.w_in, NumToChars(n), u, Lex.w_ahead>>
    [] form = "ago"         -> <<NumToChars(n), u, Lex.w_ago>>
    [] form = "in ago"      -> <<Lex.w_in, NumToChars(n), u, Lex.w_ago>>

OffsetForms == {"in", "bare", "from now", "ahead", "in ahead", "ago", "in ago"}

\* the forms the documentation lists
ListedForms == {"in", "from now", "ahead", "ago"}

OffsetPhrases ==
  {OffsetPhrase(f, n, u) : f \in ListedForms, n \in Amounts, u \in UnitForms}
    \cup {OffsetPhrase(f, LargeAmount, u) : f \in {"in", "ago"}, u \in UnitForms}

\* an amount whose days lie beyond the range of a Date
HugeDigits == <<"9","9","9","9","9","9","9","9","9">>

HugePhrases ==
  { <<Lex.w_in, HugeDigits, UnitWords[5] \o Lex.w_s>>,
    <<HugeDigits, UnitWords[5], Lex.w_ago>> }

\* the other phrases, as sequences of words
CorePhrases ==
  {<<k>> : k \in KeywordWords}
    \cup {<<k, Sample.extra, Sample.text>> : k \in KeywordWords}
    \cup {<<Sample.extra, k>> : k \in KeywordWords}
    \cup {<<Sample.todays>>, <<Sample.nowhere>>}
    \cup {<<<<"2">>, UnitWords[5], Sample.extra>>, <<<<"0">> \o <<"1">>, UnitWords[4], Lex.w_ago>>}
    \cup {<<m, d>> : m \in ModifierWords, d \in WeekdayWords}
    \cup {<<Lex.w_next, Weekdays[2], Sample.please>>, <<Weekdays[2]>>}
    \cup {<<h, Lex.w_of, p>> : h \in {Lex.w_beginning, Lex.w_start, Lex.w_end},
                               p \in {Lex.w_month, Lex.w_week, Sample.year}}
    \cup {<<h, Lex.w_of, Lex.w_the, p>> : h \in {Lex.w_beginning, Lex.w_start, Lex.w_end},
                                          p \in {Lex.w_month, Lex.w_week}}
    \cup {<<Lex.w_noon>>, <<Lex.w_midnight>>, <<Lex.w_noon, Sample.sharp>>}
    \cup {<<Lex.w_end, Lex.w_of, Lex.w_month, Sample.extra>>}
    \cup {<<>>, <<Sample.invalid, Sample.date, Sample.string>>,
          <<Sample.iso>>, <<Sample.badIso>>, <<Sample.isoTime>>}
    \cup HugePhrases

\* the offset phrases, of every form, that are also written with other blanks
\* and in capitals
ShapedOffsetPhrases ==
  {OffsetPhrase(f, 1, u) : f \in OffsetForms, u \in {UnitWords[5], UnitWords[4] \o Lex.w_s}}

\* how a phrase is written: blanks around it, blanks between words, letter case
PlainShape == [lead |-> 0, gap |-> 1, trail |-> 0, upper |-> FALSE]

Shapes ==
  { PlainShape,
    [lead |-> MaxPad, gap |-> 1,      trail |-> 1, upper |-> TRUE],
    [lead |-> 0,      gap |-> MaxPad, trail |-> 0, upper |-> FALSE] }

Written(phrase, shape) ==
  LET body == Join(phrase, shape.gap)
      text == Blanks(shape.lead) \o body \o (IF shape.trail > 0 THEN <<"\t">> ELSE <<>>)
  IN  IF shape.upper THEN ToUpperCase(text) ELSE text

\* the phrase written plainly
Plain(phrase) == Written(phrase, PlainShape)

Inputs ==
  {Plain(p) : p \in OffsetPhrases}
    \cup {Written(p, sh) : p \in CorePhrases \cup ShapedOffsetPhrases, sh \in Shapes}

At(year, month, date, h, m, s, ms) ==
  MkDate(MakeDay(year, month - 1, date),
         h * MsPerHour + m * MsPerMinute + s * MsPerSecond + ms)

\* the reference instants: one for each day of the week, at ends of months
\* and years and in a leap February
DefaultDates ==
  { At(2025, 7, 9, 15, 0, 0, 0),
    At(2025, 1, 31, 23, 59, 59, 999),
    At(2024, 2, 29, 0, 0, 0, 0),
    At(2024, 12, 31, 12, 30, 45, 678),
    At(2025, 3, 1, 6, 0, 0, 1),
    At(2025, 6, 1, 0, 0, 0, 1),
    At(2023, 1, 2, 9, 15, 0, 0) }

\* the readings of the system clock
Clocks == { At(2025, 7, 9, 15, 0, 0, 0), At(2026, 1, 1, 0, 30, 0, 0) }

\* what the host makes of a string outside its date-time string format
HostOutcomes == { InvalidDate, At(2001, 1, 1, 0, 0, 0, 0) }

Options == [defaultDate : DefaultDates \cup {UndefinedDate}, strict : BOOLEAN]

(***************************************************************************)
(* The state machine: a call is drawn, then one of the three exported      *)
(* functions is applied to it.  clock is what the system clock reads       *)
(* during the call; what the host's Date makes of the input is drawn when  *)
(* the call is made and kept in run.hostDate.                              *)
(***************************************************************************)
VARIABLES input, opts, clock, pc, run, parsed, answer, heap, ucall, prior

vars == <<input, opts, clock, pc, run, parsed, answer, heap, ucall, prior>>

\* no call of a date function made yet
NoCall ==
  [op |-> "none", before |-> <<>>, amount |-> 0, unit |-> "", weekStartsOn |-> 0,
   ret |-> 0, num |-> 0, error |-> <<>>]

NotRun ==
  [result |-> NoResult(<<>>), tried |-> <<>>, matched |-> FALSE, fallback |-> FALSE,
   hostDate |-> NullDate]

Init ==
  /\ input \in Inputs
  /\ opts \in Options
  /\ clock \in Clocks
  /\ pc = "call"
  /\ run = NotRun
  /\ parsed = NullDate
  /\ answer = FALSE
  /\ heap = <<>>
  /\ ucall = NoCall
  /\ prior = NotRun

\* parseNatural(input, opts)
CallParseNatural ==
  /\ pc = "call"
  /\ pc' = "parseNatural"
  /\ \E loop \in {ParseLoop(input, opts, clock)}, host \in HostOutcomes :
       run' = AfterParsers(loop, input, opts.strict, host)
  /\ UNCHANGED <<input, opts, clock, parsed, answer, heap, ucall, prior>>

\* parse(input, opts)
CallParse ==
  /\ pc = "call"
  /\ pc' = "parse"
  /\ \E loop \in {ParseLoop(input, opts, clock)}, host \in HostOutcomes :
       run' = AfterParsers(loop, input, opts.strict, host)
  /\ parsed' = ParseReturn(run'.result)
  /\ UNCHANGED <<input, opts, clock, answer, heap, ucall, prior>>

\* canParse(input, opts)
CallCanParse ==
  /\ pc = "call"
  /\ pc' = "canParse"
  /\ \E loop \in {ParseLoop(input, opts, clock)}, host \in HostOutcomes :
       run' = AfterParsers(loop, input, opts.strict, host)
  /\ answer' = CanParseTest(run'.result)
  /\ UNCHANGED <<input, opts, clock, parsed, heap, ucall, prior>>

Next == CallParseNatural \/ CallParse \/ CallCanParse

Spec == Init /\ [][Next]_vars

(***************************************************************************)
(* The date functions called on the caller's Date objects.  heap holds the *)
(* Date objects: the caller's are objects 1 and 2, a call allocates the    *)
(* rest.  ucall is the call made: its arguments, the heap before it, and   *)
(* what came back (the object ret, the number num, or the error thrown).   *)
(***************************************************************************)
\* the caller's two Date objects
CallerDates ==
  { <<At(2025, 1, 31, 23, 59, 59, 999), At(2025, 1, 12, 9, 15, 0, 0)>>,
    <<At(2024, 2, 29, 0, 0, 0, 0), At(2024, 3, 1, 6, 0, 0, 1)>>,
    <<At(2024, 12, 31, 12, 30, 45, 678), At(2025, 1, 1, 0, 0, 0, 0)>>,
    <<At(2025, 7, 9, 15, 0, 0, 0), At(2025, 7, 9, 15, 0, 0, 0)>>,
    <<At(2023, 10, 31, 8, 0, 0, 0), At(2023, 11, 5, 7, 59, 59, 999)>>,
    <<At(2025, 3, 30, 18, 45, 10, 5), At(2025, 3, 16, 18, 45, 10, 6)>>,
    <<At(2025, 2, 14, 10, 0, 0, 0), At(2025, 2, 28, 9, 59, 59, 999)>>,
    <<At(2024, 2, 1, 0, 0, 0, 0), At(2024, 1, 31, 23, 59, 59, 999)>> }

\* the amounts added and subtracted
CallAmounts == {-13, -1, 0, 1, 2, 13}

\* the unit strings passed: the TimeUnit values and strings that are not
CallUnits == TimeUnits \cup {"unknown", "days", ""}

\* the inputs of the parseNatural calls
CallInputs ==
  { Plain(p) : p \in
      { <<Lex.w_today>>, <<Lex.w_tomorrow>>,
        OffsetPhrase("in", 0, UnitWords[5] \o Lex.w_s),
        OffsetPhrase("in", 1, UnitWords[7]),
        OffsetPhrase("ago", 2, UnitWords[6] \o Lex.w_s),
        <<Lex.w_next, Weekdays[2]>>, <<Lex.w_this, Weekdays[4]>>,
        <<Lex.w_start, Lex.w_of, Lex.w_month>>, <<Lex.w_end, Lex.w_of, Lex.w_month>>,
        <<Lex.w_start, Lex.w_of, Lex.w_week>>, <<Lex.w_end, Lex.w_of, Lex.w_week>>,
        <<Lex.w_noon>>, <<Lex.w_midnight>>,
        <<Sample.iso>>, <<Sample.invalid, Sample.date, Sample.string>> } }

UtilInit ==
  /\ heap \in CallerDates
  /\ input \in CallInputs
  /\ opts \in [defaultDate : {heap[1]}, strict : BOOLEAN]
  /\ clock \in Clocks
  /\ pc = "dates"
  /\ run = NotRun
  /\ parsed = NullDate
  /\ answer = FALSE
  /\ ucall = NoCall
  /\ prior = NotRun

\* the call op has come back with o
Returned(op, amount, unit, weekStartsOn, o) ==
  /\ heap' = o.heap
  /\ ucall' = [op |-> op, before |-> heap, amount |-> amount, unit |-> unit,
               weekStartsOn |-> weekStartsOn,
               ret |-> o.ret, num |-> o.num, error |-> o.error]
  /\ UNCHANGED <<input, opts, clock, pc, run, parsed, answer, prior>>

\* weekStartsOn: number = 0
WeekStartsOnDefault == 0

\* add(object 1, amount, unit)
CallAdd ==
  /\ pc = "dates" /\ ucall.op = "none"
  /\ \E amount \in CallAmounts, unit \in CallUnits :
       Returned("add", amount, unit, 0, HAdd(heap, 1, amount, unit))

\* subtract(object 1, amount, unit)
CallSubtract ==
  /\ pc = "dates" /\ ucall.op = "none"
  /\ \E amount \in CallAmounts, unit \in CallUnits :
       Returned("subtract", amount, unit, 0, HSubtract(heap, 1, amount, unit))

\* differenceIn(object 1, object 2, unit)
CallDifferenceIn ==
  /\ pc = "dates" /\ ucall.op = "none"
  /\ \E unit \in CallUnits :
       Returned("differenceIn", 0, unit, 0, HDifferenceIn(heap, 1, 2, unit))

\* startOfDay(object 1) ... endOfYear(object 1)
CallPeriod ==
  /\ pc = "dates" /\ ucall.op = "none"
  /\ \/ Returned("startOfDay", 0, "", 0, HStartOfDay(heap, 1))
     \/ Returned("endOfDay", 0, "", 0, HEndOfDay(heap, 1))
     \/ \E w \in 0..6 : Returned("startOfWeek", 0, "", w, HStartOfWeek(heap, 1, w))
     \/ \E w \in 0..6 : Returned("endOfWeek", 0, "", w, HEndOfWeek(heap, 1, w))
     \/ Returned("startOfWeek, weekStartsOn left out", 0, "", WeekStartsOnDefault,
                 HStartOfWeek(heap, 1, WeekStartsOnDefault))
     \/ Returned("endOfWeek, weekStartsOn left out", 0, "", WeekStartsOnDefault,
                 HEndOfWeek(heap, 1, WeekStartsOnDefault))
     \/ Returned("startOfMonth", 0, "", 0, HStartOfMonth(heap, 1))
     \/ Returned("endOfMonth", 0, "", 0, HEndOfMonth(heap, 1))
     \/ Returned("startOfYear", 0, "", 0, HStartOfYear(heap, 1))
     \/ Returned("endOfYear", 0, "", 0, HEndOfYear(heap, 1))

\* parseNatural(input, { defaultDate: object 1, strict })
CallParseNaturalAt ==
  /\ pc = "dates" /\ ucall.op = "none"
  /\ \E host \in HostOutcomes :
       Returned("parseNatural", 0, "", 0,
                HParseNatural(heap, 1, input, opts.strict, clock, host))

\* differenceIn(add(object 1, amount, unit), object 1, unit): the call made is
\* add, its Date is measured against its argument in add's unit
CallDifferenceInOfAdd ==
  /\ pc = "dates" /\ ucall.op = "add" /\ ucall.ret # 0
  /\ Returned("differenceIn of add", ucall.amount, ucall.unit, 0,
              HDifferenceIn(heap, ucall.ret, 1, ucall.unit))

\* the values passed to toDate
ToDateValues ==
  { DateValue(1), DateValue(2),
    StringValue(Sample.iso), StringValue(Sample.isoTime), StringValue(Sample.badIso),
    StringValue(Sample.invalid), StringValue(<<>>),
    NumberValue(0, 0), NumberValue(19913, 15 * MsPerHour), NumberValue(-1, MsPerDay - 1),
    NumberValue(MaxTimeDays, 0), NumberValue(MaxTimeDays, 1), NumberValue(-MaxTimeDays - 1, 0),
    NaNValue, ObjectValue }

\* toDate(value)
CallToDate ==
  /\ pc = "dates" /\ ucall.op = "none"
  /\ \E value \in ToDateValues, host \in HostOutcomes :
       \E o \in {HToDateOf(heap, value, host)} :
         /\ heap' = o.heap
         /\ ucall' = [op |-> "toDate", before |-> heap, amount |-> 0, unit |-> "",
                      weekStartsOn |-> 0, ret |-> o.ret, num |-> o.num, error |-> o.error,
                      value |-> value, made |-> IF value.kind \in {"string", "number"}
                                                  THEN NewDateOf(value, host) ELSE NullDate]
  /\ UNCHANGED <<input, opts, clock, pc, run, parsed, answer, prior>>

\* endOfMonth(startOfMonth(object 1)): the call made is startOfMonth, and
\* endOfMonth is called on its Date
CallEndOfMonthOfStart ==
  /\ pc = "dates" /\ ucall.op = "startOfMonth"
  /\ Returned("endOfMonth of startOfMonth", 0, "", 0, HEndOfMonth(heap, ucall.ret))

UtilNext ==
  \/ CallAdd \/ CallSubtract \/ CallDifferenceIn \/ CallPeriod \/ CallParseNaturalAt
  \/ CallDifferenceInOfAdd \/ CallEndOfMonthOfStart \/ CallToDate

UtilSpec == UtilInit /\ [][UtilNext]_vars

(***************************************************************************)
(* parseNatural called twice with the same input and options.  The system  *)
(* clock reads what it will at each call; the host's Date makes of a given *)
(* string what it made of it before.  prior is the run of the first call,  *)
(* run that of the latest.                                                 *)
(***************************************************************************)
RepeatInit ==
  /\ input \in Inputs
  /\ opts \in Options
  /\ clock \in Clocks
  /\ pc = "first"
  /\ run = NotRun
  /\ prior = NotRun
  /\ parsed = NullDate
  /\ answer = FALSE
  /\ heap = <<>>
  /\ ucall = NoCall

\* parseNatural(input, opts), the first time
FirstCall ==
  /\ pc = "first"
  /\ pc' = "second"
  /\ \E loop \in {ParseLoop(input, opts, clock)}, host \in HostOutcomes :
       run' = AfterParsers(loop, input, opts.strict, host)
  /\ UNCHANGED <<input, opts, clock, parsed, answer, heap, ucall, prior>>

\* parseNatural(input, opts) again, later: the module keeps nothing from the
\* first call, the clock has moved on
SecondCall ==
  /\ pc = "second"
  /\ pc' = "returned"
  /\ clock' \in Clocks
  /\ prior' = run
  /\ \E loop \in {ParseLoop(input, opts, clock')}, host \in HostOutcomes :
       /\ run.fallback => HostParse(input, host) = run.hostDate
       /\ run' = AfterParsers(loop, input, opts.strict, host)
  /\ UNCHANGED <<input, opts, parsed, answer, heap, ucall>>

RepeatNext == FirstCall \/ SecondCall

RepeatSpec == RepeatInit /\ [][RepeatNext]_vars

\* a call has returned
Done == pc # "call"

\* the result of the parseNatural call made, directly or inside parse and canParse
result == run.result

\* the reference instant of the call: options.defaultDate, or now()
RefDate == IF opts.defaultDate.tag = "undefined" THEN Now(clock) ELSE opts.defaultDate

(***************************************************************************)
(* Properties                                                              *)
(***************************************************************************)
\* 00:00:00.000 of the calendar day k days after t's
DayStart(t, k) == [tag |-> "date", d |-> t.d + k, ms |-> 0]

\* the i-th recognizer, run alone on the call's normalized input, matches
RecognizerMatches(i) ==
  RunParser(Parsers[i], Normalize(input), RefDate, clock).date.tag # "null"

\* what produced the result of the call: a recognizer, the fallback, or nothing
Winner ==
  IF result.date.tag = "null" THEN "none"
  ELSE IF run.fallback THEN "fallback"
  ELSE run.tried[Len(run.tried)]

\* the plainly written keyword, offset and weekday inputs, with what they say
KeywordTable ==
  { [text |-> Plain(<<Lex.w_today>>),     days |-> 0],
    [text |-> Plain(<<Lex.w_now>>),       days |-> 0],
    [text |-> Plain(<<Lex.w_tomorrow>>),  days |-> 1],
    [text |-> Plain(<<Lex.w_yesterday>>), days |-> -1] }

OffsetTable ==
  { [text |-> Plain(OffsetPhrase(f, n, u)), form |-> f, amount |-> n, unit |-> UnitOf(u)] :
      f \in ListedForms, n \in Amounts \cup {LargeAmount}, u \in UnitForms }

WeekdayTable ==
  { [text |-> Plain(<<m, Weekdays[i]>>), modifier |-> m, day |-> i - 1] :
      m \in ModifierWords, i \in 1..Len(Weekdays) }

\* C1: with a reference instant T in the options, whatever the system clock
\* reads, parseNatural resolves 'today' and 'now' to the start of T's day,
\* 'tomorrow' to the start of the next day and 'yesterday' to the start of the
\* day before.
C1_KeywordsFollowReference ==
  (pc = "parseNatural" /\ opts.defaultDate.tag = "date") =>
    \A e \in KeywordTable :
      input = e.text => result.date = DayStart(opts.defaultDate, e.days)

\* C2: for every reference instant T, amount N and unit word (singular or
\* plural), 'N <unit> ago' resolves to subtract(T, N, unit) and 'in N <unit>',
\* 'N <unit> from now' and 'N <unit> ahead' to add(T, N, unit), with
\* confidence 0.9.
C2_OffsetsResolve ==
  Done =>
    \A e \in OffsetTable :
      input = e.text =>
        /\ pc = "parse" => parsed = result.date
        /\ e.form = "ago"
             => /\ result.date = Subtract(RefDate, e.amount, e.unit)
                /\ result.confidence = 90
        /\ e.form \in {"in", "from now", "ahead"}
             => /\ result.date = Add(RefDate, e.amount, e.unit)
                /\ result.confidence = 90

\* 1000 months before the last millisecond of a 31 January
C2_Witness ==
  /\ pc = "parse"
  /\ parsed = Subtract(opts.defaultDate, LargeAmount, "month")
  /\ input = Plain(OffsetPhrase("ago", LargeAmount, UnitWords[7] \o Lex.w_s))
  /\ opts.defaultDate = At(2025, 1, 31, 23, 59, 59, 999)
  /\ result.confidence = 90
  /\ result.date # opts.defaultDate

\* C3: for every reference instant T and weekday name W the result of
\* '<modifier> W' is the start of a day whose weekday is W, 1..7 days after
\* T's day for 'next', 1..7 days before it for 'last' and 0..6 days after it
\* for 'this'.
C3_WeekdayOffsets ==
  Done =>
    \A e \in WeekdayTable :
      input = e.text =>
        /\ result.date.tag = "date"
        /\ result.date.ms = 0
        /\ GetDay(result.date) = e.day
        /\ e.modifier = Lex.w_next => (result.date.d - RefDate.d) \in 1..7
        /\ e.modifier = Lex.w_last => (result.date.d - RefDate.d) \in -7..-1
        /\ e.modifier = Lex.w_this => (result.date.d - RefDate.d) \in 0..6

\* 'this W' asked on a W: the reference day itself; 'next W' asked on a W: a week on
C3_Witness ==
  /\ pc = "parseNatural"
  /\ GetDay(RefDate) = 3
  /\ \/ input = Plain(<<Lex.w_this, Weekdays[4]>>) /\ result.date.d = RefDate.d
     \/ input = Plain(<<Lex.w_next, Weekdays[4]>>) /\ result.date.d = RefDate.d + 7

\* C4: the recognizers run in the order keywords, offsets, weekdays, period
\* boundaries, time of day; the first that matches gives the result and none
\* runs after it; the host's parse is tried only when all five have failed.
C4_FirstMatchWins ==
  Done =>
    LET order == << "parseRelativeKeywords", "parseRelativeTime", "parseWeekdays",
                    "parseMonthReferences", "parseTimeExpressions" >>
        n     == Len(run.tried)
    IN  /\ n \in 1..5
        /\ \A i \in 1..n : run.tried[i] = order[i] /\ Parsers[i] = order[i]
        /\ \A i \in 1..(n - 1) : ~RecognizerMatches(i)
        /\ RecognizerMatches(n)
             => /\ ~run.fallback
                /\ result = RunParser(order[n], Normalize(input), RefDate, clock)
        /\ ~RecognizerMatches(n) => n = 5
        /\ run.fallback => n = 5 /\ ~RecognizerMatches(5)

\* a weekday phrase: two recognizers fail, the third gives the result, two never run
C4_Witness ==
  /\ pc = "parseNatural"
  /\ run.tried = <<"parseRelativeKeywords", "parseRelativeTime", "parseWeekdays">>
  /\ result.confidence = 85
  /\ ~run.fallback

\* C5: the confidence of a result is fixed by what produced it: keyword 0.95,
\* offset 0.9, weekday 0.85, period boundary 0.8, time of day 0.75, fallback
\* 0.5, nothing 0.
C5_ConfidenceByTier ==
  Done =>
    /\ result.confidence \in {95, 90, 85, 80, 75, 50, 0}
    /\ result.confidence =
         CASE Winner = "parseRelativeKeywords" -> 95
           [] Winner = "parseRelativeTime"     -> 90
           [] Winner = "parseWeekdays"         -> 85
           [] Winner = "parseMonthReferences"  -> 80
           [] Winner = "parseTimeExpressions"  -> 75
           [] Winner = "fallback"              -> 50
           [] Winner = "none"                  -> 0

C5_Witness ==
  /\ pc = "parseNatural"
  /\ Winner = "parseMonthReferences"
  /\ result.confidence = 80
  /\ input = Written(<<Lex.w_end, Lex.w_of, Lex.w_the, Lex.w_week>>,
                     [lead |-> MaxPad, gap |-> 1, trail |-> 1, upper |-> TRUE])

\* the words of a phrase in lower case: all are written so but one
LowerWords(p) ==
  [i \in 1..Len(p) |->
     IF p[i] = Sample.isoTime
       THEN <<"2","0","2","5","-","1","2","-","2","5","t",
              "1","0",":","0","0",":","0","0","z">>
       ELSE p[i]]

\* the inputs, each with its text trimmed and in lower case
InputTable ==
  { [text |-> Plain(p), normal |-> Plain(p)] : p \in OffsetPhrases }
    \cup { [text |-> Written(p, sh), normal |-> Join(LowerWords(p), sh.gap)] :
             p \in CorePhrases \cup ShapedOffsetPhrases, sh \in Shapes }

\* C6: in every result of parseNatural the date is null exactly when the
\* confidence is 0.
C6_NullIffZero ==
  Done => (result.date.tag = "null" <=> result.confidence = 0)

\* the host made nothing of the input: null with 0; it made a date: a date with 0.5
C6_Witness ==
  /\ pc = "parseNatural"
  /\ run.fallback
  /\ run.hostDate.tag = "invalid"
  /\ result.date.tag = "null"
  /\ result.confidence = 0

\* C7: when no recognizer matches and strict is not set, the input as given
\* (not normalized) is handed to the host's Date; if that is a valid date the
\* result is that date with confidence 0.5, matched the input as given and
\* remaining empty.
C7_FallbackOnOriginalInput ==
  (Done /\ ~run.matched /\ ~opts.strict) =>
    /\ run.fallback
    /\ input = Plain(<<Sample.iso>>) => run.hostDate = At(2025, 12, 25, 0, 0, 0, 0)
    /\ IsDate(run.hostDate)
         => result = [date |-> run.hostDate, confidence |-> 50,
                      matched |-> input, remaining |-> <<>>]

\* a padded, upper-case input the host accepts: matched keeps blanks and case
C7_Witness ==
  /\ pc = "parseNatural"
  /\ ~opts.strict
  /\ run.fallback
  /\ IsDate(run.hostDate)
  /\ result.matched = input
  /\ result.matched # Normalize(input)
  /\ result.confidence = 50

\* C8: with strict set there is no fallback result: an input no recognizer
\* matches, a valid date literal included, gives date null and confidence 0,
\* and no result has confidence 0.5.
C8_StrictNoFallback ==
  (Done /\ opts.strict) =>
    /\ ~run.fallback
    /\ result.confidence # 50
    /\ ~run.matched => result.date.tag = "null" /\ result.confidence = 0

C8_Witness ==
  /\ pc = "parseNatural"
  /\ opts.strict
  /\ input = Plain(<<Sample.iso>>)
  /\ result.date.tag = "null"
  /\ result.confidence = 0

\* C9: when no recognizer matches and the fallback fails or is skipped, the
\* result is date null, confidence 0, matched empty and remaining the input
\* trimmed and in lower case.
C9_FailureResult ==
  (Done /\ ~run.matched /\ (opts.strict \/ ~IsDate(run.hostDate))) =>
    /\ result.date.tag = "null"
    /\ result.confidence = 0
    /\ result.matched = <<>>
    /\ \A e \in InputTable : input = e.text => result.remaining = e.normal

\* a padded, upper-case input that fails: remaining is trimmed and in lower case
C9_Witness ==
  /\ pc = "parseNatural"
  /\ ~opts.strict
  /\ input = Written(<<Sample.invalid, Sample.date, Sample.string>>,
                     [lead |-> MaxPad, gap |-> 1, trail |-> 1, upper |-> TRUE])
  /\ run.hostDate.tag = "invalid"
  /\ result.remaining = Plain(<<Sample.invalid, Sample.date, Sample.string>>)

\* C10: canParse is true exactly when parseNatural's result has a date and a
\* confidence above 0.5: true for what a recognizer resolves, false for what
\* only the fallback resolves and for what nothing resolves.
C10_CanParse ==
  pc = "canParse" =>
    /\ answer <=> (result.date.tag # "null" /\ result.confidence > 50)
    /\ Winner \in {"fallback", "none"} => ~answer
    /\ Winner \notin {"fallback", "none"} => answer

C10_Witness ==
  /\ pc = "canParse"
  /\ Winner = "fallback"
  /\ result.confidence = 50
  /\ ~answer

\* C11: parseNatural, parse and canParse never raise: whatever the input
\* (empty, blank, malformed, an amount beyond the range of a Date) and the
\* options, the call returns, parseNatural's result has its four fields, a
\* date that is null or a Date, a confidence and two strings.
C11_NeverRaises ==
  Done =>
    /\ DOMAIN result = {"date", "confidence", "matched", "remaining"}
    /\ result.date.tag \in {"null", "date", "invalid"}
    /\ result.confidence \in 0..100
    /\ DOMAIN result.matched = 1..Len(result.matched)
    /\ DOMAIN result.remaining = 1..Len(result.remaining)
    /\ pc = "parse" => parsed = result.date
    /\ pc = "canParse" => answer \in BOOLEAN

\* an amount of days beyond the range of a Date: an Invalid Date is returned,
\* nothing is raised
C11_Witness ==
  /\ pc = "parse"
  /\ input \in {Plain(p) : p \in HugePhrases}
  /\ parsed = InvalidDate
  /\ result.confidence = 90

\* n is m, then blanks when neither m nor r is empty, then r
Reconstructs(m, r, n) ==
  /\ Len(m) + Len(r) <= Len(n)
  /\ SubSeq(n, 1, Len(m)) = m
  /\ SubSeq(n, Len(n) - Len(r) + 1, Len(n)) = r
  /\ \A i \in (Len(m) + 1)..(Len(n) - Len(r)) : IsWhitespace(n[i])
  /\ (m # <<>> /\ r # <<>>) <=> Len(m) + Len(r) < Len(n)

\* C12, as stated: in every result with confidence above 0, matched and
\* remaining are trimmed and matched, blanks, remaining make up the input
\* trimmed and in lower case.
C12_RoundTripAnySuccess ==
  (Done /\ result.confidence > 0) =>
    /\ result.matched = Trim(result.matched)
    /\ result.remaining = Trim(result.remaining)
    /\ Reconstructs(result.matched, result.remaining, Normalize(input))

\* C12, amended: the same of every result a recognizer produced; the
\* fallback's result has the input as given for matched.
C12_RoundTripOfRecognizers ==
  (Done /\ result.confidence > 0 /\ ~run.fallback) =>
    /\ result.matched # <<>>
    /\ result.matched = Trim(result.matched)
    /\ result.remaining = Trim(result.remaining)
    /\ Reconstructs(result.matched, result.remaining, Normalize(input))

\* 'tomorrow extra text' in capitals between blanks
C12_Witness ==
  /\ pc = "parseNatural"
  /\ input = Written(<<Lex.w_tomorrow, Sample.extra, Sample.text>>,
                     [lead |-> MaxPad, gap |-> 1, trail |-> 1, upper |-> TRUE])
  /\ result.matched = Lex.w_tomorrow
  /\ result.remaining = Plain(<<Sample.extra, Sample.text>>)

\* C13: an input a recognizer resolves gives, written in other letter case
\* or between blanks, the very result (date, confidence, matched, remaining)
\* of the same words in lower case without the blanks, the reference instant
\* and the clock being the same.
C13_CaseAndBlanksIgnored ==
  Done =>
    \A e \in InputTable :
      (input = e.text /\ ParseLoop(e.normal, opts, clock).matched)
        => result = ParseLoop(e.normal, opts, clock).result

\* 'next monday' in capitals between blanks
C13_Witness ==
  /\ pc = "parseNatural"
  /\ input = Written(<<Lex.w_next, Weekdays[2]>>,
                     [lead |-> MaxPad, gap |-> 1, trail |-> 1, upper |-> TRUE])
  /\ input # Plain(<<Lex.w_next, Weekdays[2]>>)
  /\ result = ParseLoop(Plain(<<Lex.w_next, Weekdays[2]>>), opts, clock).result
  /\ result.matched = Plain(<<Lex.w_next, Weekdays[2]>>)
  /\ result.confidence = 85

\* the plainly written period phrases, with the boundary and period they name
PeriodTable ==
  { [text |-> Plain(<<h, Lex.w_of>> \o the \o <<p>>),
     atEnd |-> (h = Lex.w_end), week |-> (p = Lex.w_week)] :
      h \in {Lex.w_beginning, Lex.w_start, Lex.w_end},
      the \in {<<>>, <<Lex.w_the>>},
      p \in {Lex.w_month, Lex.w_week} }

\* the day number of the first or last day of t's month, and of the Sunday
\* on or before t or the Saturday on or after it
MonthEdge(t, atEnd) ==
  IF atEnd THEN MakeDay(GetFullYear(t), GetMonth(t) + 1, 1) - 1
  ELSE MakeDay(GetFullYear(t), GetMonth(t), 1)

WeekEdge(t, atEnd) == t.d - GetDay(t) + (IF atEnd THEN 6 ELSE 0)

\* C14: 'beginning|start of [the] month' resolves to startOfMonth(T), 'end of
\* [the] month' to endOfMonth(T), 'beginning|start of [the] week' to
\* startOfWeek(T) and 'end of [the] week' to endOfWeek(T), weeks starting on
\* Sunday, with confidence 0.8: the first day at 00:00:00.000, the last at
\* 23:59:59.999.
C14_PeriodBoundaries ==
  Done =>
    \A e \in PeriodTable :
      input = e.text =>
        /\ result.confidence = 80
        /\ result.date =
             (CASE ~e.week /\ ~e.atEnd -> StartOfMonth(RefDate)
                [] ~e.week /\ e.atEnd  -> EndOfMonth(RefDate)
                [] e.week /\ ~e.atEnd  -> StartOfWeek(RefDate, 0)
                [] e.week /\ e.atEnd   -> EndOfWeek(RefDate, 0))
        /\ result.date.tag = "date"
        /\ result.date.d = (IF e.week THEN WeekEdge(RefDate, e.atEnd)
                            ELSE MonthEdge(RefDate, e.atEnd))
        /\ result.date.ms = (IF e.atEnd THEN MsPerDay - 1 ELSE 0)

\* the end of the week asked on a Tuesday 31 December: Saturday 4 January
C14_Witness ==
  /\ pc = "parseNatural"
  /\ input = Plain(<<Lex.w_end, Lex.w_of, Lex.w_the, Lex.w_week>>)
  /\ opts.defaultDate = At(2024, 12, 31, 12, 30, 45, 678)
  /\ result.date = At(2025, 1, 4, 23, 59, 59, 999)

\* C15: 'noon' resolves to 12:00:00.000 and 'midnight' to 00:00:00.000 of
\* the reference instant's own day, with confidence 0.75.
C15_NoonAndMidnight ==
  Done =>
    /\ input = Plain(<<Lex.w_noon>>)
         => /\ result.date = [tag |-> "date", d |-> RefDate.d, ms |-> 12 * MsPerHour]
            /\ result.confidence = 75
    /\ input = Plain(<<Lex.w_midnight>>)
         => /\ result.date = [tag |-> "date", d |-> RefDate.d, ms |-> 0]
            /\ result.confidence = 75

\* midnight asked at 23:59:59.999: the start of that day, not of the next
C15_Witness ==
  /\ pc = "parseNatural"
  /\ input = Plain(<<Lex.w_midnight>>)
  /\ opts.defaultDate = At(2025, 1, 31, 23, 59, 59, 999)
  /\ result.date = At(2025, 1, 31, 0, 0, 0, 0)

\* C16: an offset phrase with amount 0, in any unit and form, resolves to
\* the reference instant itself, its time of day kept to the millisecond.
C16_ZeroOffsetIsReference ==
  Done =>
    \A e \in OffsetTable :
      (input = e.text /\ e.amount = 0) =>
        /\ result.date = RefDate
        /\ pc = "parse" => parsed = RefDate

\* '0 months ago' asked at 23:59:59.999 of a 31 January
C16_Witness ==
  /\ pc = "parse"
  /\ input = Plain(OffsetPhrase("ago", 0, UnitWords[7] \o Lex.w_s))
  /\ opts.defaultDate = At(2025, 1, 31, 23, 59, 59, 999)
  /\ parsed = At(2025, 1, 31, 23, 59, 59, 999)

\* the functions that return a Date made from their argument
DateMakers ==
  {"add", "subtract", "startOfDay", "endOfDay", "startOfWeek", "endOfWeek",
   "startOfWeek, weekStartsOn left out", "endOfWeek, weekStartsOn left out",
   "startOfMonth", "endOfMonth", "endOfMonth of startOfMonth", "startOfYear",
   "endOfYear", "parseNatural"}

\* every object the caller had holds the value it had before the call
CallerObjectsKept ==
  /\ Len(heap) >= Len(ucall.before)
  /\ \A i \in 1..Len(ucall.before) : heap[i] = ucall.before[i]

\* C17: after add, subtract, a start/end-of-period function or parseNatural
\* with defaultDate returns, the caller's Date objects hold the values they
\* had before the call, and the Date returned is an object the caller did
\* not have, also when its value equals the argument's (amount 0).
C17_ArgumentKeptResultFresh ==
  (ucall.op \in DateMakers /\ ucall.error = <<>>) =>
    /\ CallerObjectsKept
    /\ ucall.ret # 0 => /\ ucall.ret \in (Len(ucall.before) + 1)..Len(heap)
                        /\ IsDate(heap[ucall.ret])

\* add(t, 0, 'month') returned an object other than t, of t's value
C17_Witness ==
  /\ ucall.op = "add" /\ ucall.amount = 0 /\ ucall.unit = "month"
  /\ ucall.ret > 2
  /\ heap[ucall.ret] = heap[1]
  /\ heap[1] = At(2025, 1, 31, 23, 59, 59, 999)

\* the call made came back as o does
CameBackAs(o) ==
  /\ Len(heap) = Len(o.heap)
  /\ ucall.ret = o.ret
  /\ ucall.error = o.error
  /\ o.ret # 0 => heap[ucall.ret] = o.heap[o.ret]

\* C18: subtract(t, n, u) comes back as add(t, -n, u) does, for every
\* timestamp t, amount n and unit u: the same value, or the same error.
C18_SubtractIsAddNegated ==
  ucall.op = "subtract" =>
    /\ CameBackAs(HAdd(ucall.before, 1, -ucall.amount, ucall.unit))
    /\ ucall.unit \in TimeUnits =>
         heap[ucall.ret] = Add(ucall.before[1], -ucall.amount, ucall.unit)

\* subtract(31 January 2025, 13, 'month') is 31 December 2023
C18_Witness ==
  /\ ucall.op = "subtract" /\ ucall.amount = 13 /\ ucall.unit = "month"
  /\ ucall.before[1] = At(2025, 1, 31, 23, 59, 59, 999)
  /\ heap[ucall.ret] = At(2023, 12, 31, 23, 59, 59, 999)

\* C19: add, subtract and differenceIn called with a unit that is not one
\* of the eight TimeUnit values throw an error that names the unit; no Date
\* and no number comes back, and the Date arguments are left as they were.
C19_UnknownUnitThrows ==
  (ucall.op \in {"add", "subtract", "differenceIn"} /\ ucall.unit \notin TimeUnits) =>
    /\ ucall.error = <<"Unknown unit: ", ucall.unit>>
    /\ ucall.ret = 0
    /\ ucall.num = 0
    /\ CallerObjectsKept

\* differenceIn(a, b, 'days') threw
C19_Witness ==
  /\ ucall.op = "differenceIn" /\ ucall.unit = "days"
  /\ ucall.error = <<"Unknown unit: ", "days">>
  /\ heap[1] = ucall.before[1] /\ heap[2] = ucall.before[2]
  /\ heap[1] # heap[2]

\* the days of month m (0-based) of year y
DaysInMonth(y, m) ==
  IF m = 1
    THEN (IF (y % 4 = 0 /\ y % 100 # 0) \/ y % 400 = 0 THEN 29 ELSE 28)
  ELSE IF m \in {3, 5, 8, 10} THEN 30
  ELSE 31

\* t is day dt of month m (0-based, any integer) of year y, where a day past
\* the end of that month counts on into the month after it
IsRolledOver(t, y, m, dt) ==
  LET yy == y + (m \div 12)
      mm == m % 12
  IN  IF dt <= DaysInMonth(yy, mm)
        THEN Civil(t.d) = [year |-> yy, month |-> mm, date |-> dt]
        ELSE Civil(t.d) = [year  |-> yy + ((mm + 1) \div 12),
                           month |-> (mm + 1) % 12,
                           date  |-> dt - DaysInMonth(yy, mm)]

\* C20: add of months or years shifts the month or the year field and keeps
\* the day of the month and the time of day; a day the target month does
\* not have rolls over into the month after it and is not clamped to the
\* month's last day: 31 January 2025 plus 1 month is 3 March 2025.
C20_MonthYearRollover ==
  (ucall.op = "add" /\ ucall.unit \in {"month", "year"}) =>
    /\ ucall.error = <<>>
    /\ heap[ucall.ret].ms = ucall.before[1].ms
    /\ ucall.unit = "month" =>
         IsRolledOver(heap[ucall.ret], GetFullYear(ucall.before[1]),
                      GetMonth(ucall.before[1]) + ucall.amount, GetDate(ucall.before[1]))
    /\ ucall.unit = "year" =>
         IsRolledOver(heap[ucall.ret], GetFullYear(ucall.before[1]) + ucall.amount,
                      GetMonth(ucall.before[1]), GetDate(ucall.before[1]))
    /\ (ucall.before[1] = At(2025, 1, 31, 23, 59, 59, 999)
          /\ ucall.amount = 1 /\ ucall.unit = "month")
         => heap[ucall.ret] = At(2025, 3, 3, 23, 59, 59, 999)

\* add(31 January 2025 23:59:59.999, 1, 'month') returned 3 March
C20_Witness ==
  /\ ucall.op = "add" /\ ucall.amount = 1 /\ ucall.unit = "month"
  /\ ucall.before[1] = At(2025, 1, 31, 23, 59, 59, 999)
  /\ GetMonth(heap[ucall.ret]) = 2 /\ GetDate(heap[ucall.ret]) = 3
  /\ GetHours(heap[ucall.ret]) = 23 /\ GetMilliseconds(heap[ucall.ret]) = 999

\* C21, as stated: differenceIn(add(T, 1, 'month'), T, 'month') is 1 for
\* every timestamp T.
C21_MonthAddedIsOneMonth ==
  (ucall.op = "differenceIn of add" /\ ucall.unit = "month" /\ ucall.amount = 1) =>
    /\ ucall.error = <<>>
    /\ ucall.num = 1

\* C21, amended: it is 1 when the month after T's has T's day of the month,
\* and 2 when it has not, the day having rolled over into the month after.
C21_MonthAddedUnlessRolledOver ==
  (ucall.op = "differenceIn of add" /\ ucall.unit = "month" /\ ucall.amount = 1) =>
    /\ ucall.error = <<>>
    /\ ucall.num =
         IF GetDate(ucall.before[1])
              <= DaysInMonth(GetFullYear(ucall.before[1]) + ((GetMonth(ucall.before[1]) + 1) \div 12),
                             (GetMonth(ucall.before[1]) + 1) % 12)
           THEN 1 ELSE 2

\* 30 March 2025 plus one month is 30 April: one month apart
C21_Witness ==
  /\ ucall.op = "differenceIn of add" /\ ucall.unit = "month" /\ ucall.amount = 1
  /\ ucall.before[1] = At(2025, 3, 30, 18, 45, 10, 5)
  /\ ucall.before[Len(ucall.before)] = At(2025, 4, 30, 18, 45, 10, 5)
  /\ ucall.num = 1

\* the whole units of k milliseconds (k dividing a day) from earlier to later
WholeUnitsBetween(later, earlier, k) ==
  (later.d - earlier.d) * (MsPerDay \div k) + ((later.ms - earlier.ms) \div k)

\* a is not before b
NotBefore(a, b) == a.d > b.d \/ (a.d = b.d /\ a.ms >= b.ms)

\* a - b in whole units, truncated toward zero
TruncatedDifference(a, b, unit) ==
  LET k == CASE unit = "second" -> MsPerSecond
             [] unit = "minute" -> MsPerMinute
             [] unit = "hour"   -> MsPerHour
             [] OTHER           -> MsPerDay
      w == IF unit = "week" THEN 7 ELSE 1
  IN  IF NotBefore(a, b) THEN WholeUnitsBetween(a, b, k) \div w
      ELSE -(WholeUnitsBetween(b, a, k) \div w)

\* C22: for second, minute, hour, day and week, differenceIn(a, b, unit) is
\* a - b in whole units truncated toward zero, for negative differences as
\* for positive ones, so that it is the negative of differenceIn(b, a, unit).
C22_TruncatedTowardZero ==
  (ucall.op = "differenceIn" /\ ucall.unit \in {"second", "minute", "hour", "day", "week"}) =>
    /\ ucall.error = <<>>
    /\ ucall.num = TruncatedDifference(ucall.before[1], ucall.before[2], ucall.unit)
    /\ ucall.num = -DifferenceIn(ucall.before[2], ucall.before[1], ucall.unit)

\* the day of the week (0 = Sunday) of day number d, counted from
\* Wednesday 9 July 2025
WeekdayOf(d) == (d - At(2025, 7, 9, 0, 0, 0, 0).d + 3) % 7

\* r is 00:00:00.000 of the day of weekday w that is t's day or one of the
\* six before it
IsWeekStart(r, t, w) ==
  /\ IsDate(r) /\ r.ms = 0
  /\ WeekdayOf(r.d) = w
  /\ r.d \in (t.d - 6)..t.d

\* r is 23:59:59.999 of the day six days after that start
IsWeekEnd(r, t, w) ==
  /\ IsDate(r) /\ r.ms = MsPerDay - 1
  /\ WeekdayOf(r.d - 6) = w
  /\ (r.d - 6) \in (t.d - 6)..t.d

\* C23: for every timestamp d and weekStartsOn in 0..6, startOfWeek is
\* 00:00:00.000 of a day whose weekday is weekStartsOn and that is d's day or
\* one of the 6 days before it, and endOfWeek is 23:59:59.999 of the day 6
\* days after that start; weekStartsOn left out counts as 0, Sunday.
C23_WeekBoundaries ==
  /\ ucall.op = "startOfWeek"
       => IsWeekStart(heap[ucall.ret], ucall.before[1], ucall.weekStartsOn)
  /\ ucall.op = "endOfWeek"
       => IsWeekEnd(heap[ucall.ret], ucall.before[1], ucall.weekStartsOn)
  /\ ucall.op = "startOfWeek, weekStartsOn left out"
       => IsWeekStart(heap[ucall.ret], ucall.before[1], 0)
  /\ ucall.op = "endOfWeek, weekStartsOn left out"
       => IsWeekEnd(heap[ucall.ret], ucall.before[1], 0)

\* endOfWeek of Tuesday 31 December 2024 for weeks that start on Wednesday:
\* the week began on the 25th and ends on Tuesday the 31st itself
C23_Witness ==
  /\ ucall.op = "endOfWeek" /\ ucall.weekStartsOn = 3
  /\ ucall.before[1] = At(2024, 12, 31, 12, 30, 45, 678)
  /\ heap[ucall.ret] = At(2024, 12, 31, 23, 59, 59, 999)

\* r is the instant ms of day dt of t's month
IsInMonthOf(r, t, dt, ms) ==
  /\ IsDate(r) /\ r.ms = ms
  /\ Civil(r.d) = [year |-> GetFullYear(t), month |-> GetMonth(t), date |-> dt]

\* C24: startOfMonth(d) is 00:00:00.000 of day 1 of d's month and
\* endOfMonth(d) is 23:59:59.999 of the last day of d's month, so that from
\* the one to the other there are as many calendar days as the month has:
\* 29 for a date in February of a leap year, 28 in another year.
C24_MonthBoundaries ==
  /\ ucall.op = "startOfMonth"
       => IsInMonthOf(heap[ucall.ret], ucall.before[1], 1, 0)
  /\ ucall.op = "endOfMonth"
       => IsInMonthOf(heap[ucall.ret], ucall.before[1],
                      DaysInMonth(GetFullYear(ucall.before[1]), GetMonth(ucall.before[1])),
                      MsPerDay - 1)
  /\ ucall.op = "endOfMonth of startOfMonth"
       => /\ heap[ucall.ret].ms = MsPerDay - 1
          /\ heap[ucall.ret].d - ucall.before[Len(ucall.before)].d + 1
               = DaysInMonth(GetFullYear(ucall.before[1]), GetMonth(ucall.before[1]))
          /\ (GetMonth(ucall.before[1]) = 1 /\ GetFullYear(ucall.before[1]) = 2024)
               => heap[ucall.ret].d - ucall.before[Len(ucall.before)].d + 1 = 29
          /\ (GetMonth(ucall.before[1]) = 1 /\ GetFullYear(ucall.before[1]) = 2025)
               => heap[ucall.ret].d - ucall.before[Len(ucall.before)].d + 1 = 28

\* from startOfMonth of 29 February 2024 to its endOfMonth: 1 to 29 February
C24_Witness ==
  /\ ucall.op = "endOfMonth of startOfMonth"
  /\ ucall.before[1] = At(2024, 2, 29, 0, 0, 0, 0)
  /\ ucall.before[Len(ucall.before)] = At(2024, 2, 1, 0, 0, 0, 0)
  /\ heap[ucall.ret] = At(2024, 2, 29, 23, 59, 59, 999)

\* C25: toDate(v) throws an error naming v for every string or number v that
\* does not denote a valid timestamp, and never returns an Invalid Date for
\* it; for a valid Date it returns a new Date object of the same value that
\* is not the object given, which is left as it was.
C25_ToDate ==
  ucall.op = "toDate" =>
    /\ CallerObjectsKept
    /\ ucall.value.kind \in {"string", "number"} =>
         /\ ~IsDate(ucall.made) =>
              /\ ucall.ret = 0
              /\ Len(ucall.error) = 2
              /\ ucall.error[1] = "Invalid date: "
              /\ ucall.error[2] = ucall.value
         /\ IsDate(ucall.made) =>
              /\ ucall.error = <<>>
              /\ ucall.ret = Len(ucall.before) + 1
              /\ heap[ucall.ret] = ucall.made
         /\ ucall.value \in {StringValue(Sample.badIso), NaNValue,
                              NumberValue(MaxTimeDays, 1), NumberValue(-MaxTimeDays - 1, 0)}
              => ucall.ret = 0
         /\ ucall.value = StringValue(Sample.iso)
              => heap[ucall.ret] = At(2025, 12, 25, 0, 0, 0, 0)
    /\ ucall.value.kind = "Date" =>
         /\ ucall.error = <<>>
         /\ ucall.ret \notin 1..Len(ucall.before)
         /\ heap[ucall.ret] = ucall.before[ucall.value.ref]

\* toDate('2025-13-45') threw, naming the string
C25_Witness ==
  /\ ucall.op = "toDate"
  /\ ucall.value = StringValue(Sample.badIso)
  /\ ucall.ret = 0
  /\ ucall.error[2].text = Sample.badIso
  /\ heap = ucall.before

\* C26: two parseNatural calls with the same input, the same explicit
\* defaultDate and the same strict flag return equal results, whatever the
\* system clock reads at each call.
C26_SameCallSameResult ==
  (pc = "returned" /\ opts.defaultDate.tag # "undefined") =>
    run.result = prior.result

\* C27: 'now' resolves to the current date and time, the time of day kept
\* (the instant of the reference, or of the clock), unlike 'today', which
\* resolves to the current date at midnight.
C27_NowKeepsTime ==
  Done =>
    /\ input = Plain(<<Lex.w_now>>)
         => /\ result.date \in {RefDate, Now(clock)}
            /\ result.confidence = 95
    /\ input = Plain(<<Lex.w_today>>)
         => /\ IsDate(result.date)
            /\ result.date.ms = 0

\* the parsers array in the opposite order
ParsersReversed ==
  << "parseTimeExpressions", "parseMonthReferences", "parseWeekdays",
     "parseRelativeTime", "parseRelativeKeywords" >>

\* C28: at most one of the five recognizers matches a normalized input, and
\* at most one of futurePattern and pastPattern, so that the result of the
\* loop is the same when the recognizers are tried in the opposite order.
C28_RecognizersExclusive ==
  Done =>
    /\ Cardinality({i \in 1..Len(Parsers) : RecognizerMatches(i)}) <= 1
    /\ ~ (RxMatch(Normalize(input), RxFuture(Normalize(input))).found
           /\ RxMatch(Normalize(input), RxPast(Normalize(input))).found)
    /\ run.matched
         => TryParsers(ParsersReversed, 1, <<>>, Normalize(input), RefDate, clock).result
              = result

\* '1 day ago', matched by pastPattern and by nothing else
C28_Witness ==
  /\ pc = "parseNatural"
  /\ input = Plain(OffsetPhrase("ago", 1, UnitWords[5]))
  /\ RxMatch(input, RxPast(input)).found
  /\ ~RxMatch(input, RxFuture(input)).found
  /\ Winner = "parseRelativeTime"
  /\ {i \in 1..Len(Parsers) : RecognizerMatches(i)} = {2}

\* phrases of the offset, weekday, period and time-of-day families followed
\* by other words, and keywords preceded by other words
TrailingAndLeadingPhrases ==
  { <<<<"2">>, UnitWords[5], Sample.extra>>,
    <<Lex.w_next, Weekdays[2], Sample.please>>,
    <<Lex.w_end, Lex.w_of, Lex.w_month, Sample.extra>>,
    <<Lex.w_noon, Sample.sharp>> }
    \cup {<<Sample.extra, k>> : k \in KeywordWords}

C30_SuccessHasValidDate ==
  (Done /\ IsDate(RefDate) /\ result.confidence > 0) =>
    /\ IsDate(result.date)
    /\ result.date.d \in (-MaxTimeDays)..MaxTimeDays
    /\ pc = "parse" => IsDate(parsed)

====
